---- MODULE Spec2Model ----
(***************************************************************************)
(* Model of pkg/network/ovn_kubernetes.go of the cluster-network-operator: *)
(* the rollout decision of renderOVNKubernetes (IP-family gate, version    *)
(* sequencer, prepull stager, progress evaluator) and the objects it       *)
(* returns, the bootstrap protocol of bootstrapOVN (member discovery poll  *)
(* with the adaptive process-wide deadline, initiator election), the       *)
(* flows configuration of bootstrapFlowsConfig, and a cluster over its     *)
(* reconciliation passes.                                                  *)
(***************************************************************************)
EXTENDS Integers, Sequences, FiniteSets, TLC

(* ------------------------------------------------------------------ *)
(* Bounds of the model                                                  *)
(* ------------------------------------------------------------------ *)

\* largest DesiredNumberScheduled / UpdatedNumberScheduled given to the
\* progress evaluator when it is exercised on its own
MaxScheduled == 21

\* DesiredNumberScheduled of the tiers handed to the decision functions
PassNodes == 1

\* largest control-plane replica count read from the install-config
MaxReplicas == 3

\* the number of targets whose passes call bootstrapOVN at the same time
MaxCalls == 2

\* the concurrent calls
Calls == 1..MaxCalls

(* ------------------------------------------------------------------ *)
(* Program constants                                                    *)
(* ------------------------------------------------------------------ *)

OVN_MASTER_DISCOVERY_POLL == 5
OVN_MASTER_DISCOVERY_BACKOFF == 120
InitialDiscoveryTimeout == 250

IPFamilySingleStack == "single-stack"
IPFamilyDualStack == "dual-stack"

versionUpgrade == "versionUpgrade"
versionSame == "versionSame"
versionDowngrade == "versionDowngrade"
versionUnknown == "versionUnknown"

\* a nil *appsv1.DaemonSet is the empty tuple, a non-nil one a 1-tuple
NIL == <<>>

Max(a, b) == IF a >= b THEN a ELSE b

(* ------------------------------------------------------------------ *)
(* Data: daemonsets as the decision functions read them                 *)
(* ------------------------------------------------------------------ *)

\* values of the release.openshift.io/version annotation ("" = absent)
Versions == {"", "4.10.0", "4.11.0", "4.12.0"}

\* release ordering of the parsable version strings
SemVer == [v \in {"4.10.0", "4.11.0", "4.12.0"} |->
             CASE v = "4.10.0" -> 10 [] v = "4.11.0" -> 11 [] v = "4.12.0" -> 12]

\* values of the IP family mode annotation ("" = absent)
FamilyMarkers == {"", IPFamilySingleStack, IPFamilyDualStack}

\* a daemonset: the annotations and the status fields that are read
DaemonSet(version, family, hung, desired, updated, unavailable, available, gen, obsGen) ==
  [version |-> version, ipFamilyMode |-> family, hung |-> hung,
   DesiredNumberScheduled |-> desired, UpdatedNumberScheduled |-> updated,
   NumberUnavailable |-> unavailable, NumberAvailable |-> available,
   Generation |-> gen, ObservedGeneration |-> obsGen]

\* daemonsets given to the progress evaluator on its own
EvaluatorDaemonSets ==
  {DaemonSet("4.11.0", IPFamilySingleStack, h, d, u, na, a, g, og) :
     h \in BOOLEAN, d \in 0..MaxScheduled, u \in 0..MaxScheduled,
     na \in 0..1, a \in 0..1, g \in 1..2, og \in 1..2}

\* daemonsets of a tier in a reconciliation pass: u of PassNodes pods updated
\* and available, the others unavailable
TierDaemonSets(versions, families) ==
  {DaemonSet(v, f, h, PassNodes, u, PassNodes - u, u, 1, 1) :
     v \in versions, f \in families, h \in BOOLEAN, u \in 0..PassNodes}

\* a pointer to a tier daemonset, or nil
TierPointers(versions, families) ==
  {NIL} \cup {<<ds>> : ds \in TierDaemonSets(versions, families)}

(* ------------------------------------------------------------------ *)
(* Progress evaluator                                                   *)
(* ------------------------------------------------------------------ *)

\* the base condition "copied from status_manager"
baseProgressing(ds) ==
  \/ ds.UpdatedNumberScheduled < ds.DesiredNumberScheduled
  \/ ds.NumberUnavailable > 0
  \/ ds.NumberAvailable = 0
  \/ ds.Generation > ds.ObservedGeneration

\* the tolerance without its floor of one pod
maxBehind_tenth(ds) == ds.DesiredNumberScheduled \div 10

\* int(math.Max(1, math.Floor(float64(desired)*0.1)))
maxBehind(ds) == Max(1, ds.DesiredNumberScheduled \div 10)

numBehind(ds) == ds.DesiredNumberScheduled - ds.UpdatedNumberScheduled

daemonSetProgressing(ds, allowHung) ==
  IF ~baseProgressing(ds) THEN FALSE
  ELSE IF allowHung /\ ds.hung /\ numBehind(ds) <= maxBehind(ds) THEN FALSE
  ELSE TRUE

(* ------------------------------------------------------------------ *)
(* Version classifier                                                   *)
(* ------------------------------------------------------------------ *)

compareVersions(fromVersion, toVersion) ==
  IF fromVersion = toVersion THEN versionSame
  ELSE IF fromVersion \notin DOMAIN SemVer \/ toVersion \notin DOMAIN SemVer
    THEN versionUnknown
  ELSE IF SemVer[fromVersion] < SemVer[toVersion] THEN versionUpgrade
  ELSE IF SemVer[fromVersion] > SemVer[toVersion] THEN versionDowngrade
  ELSE versionUnknown

(* ------------------------------------------------------------------ *)
(* Decision functions: each returns <<first result, second result>>     *)
(* ------------------------------------------------------------------ *)

\* the master has the desired mode, the node not: wait for the master rollout
\* before the node is converted
waitForMasterConversion_allowHung(existingMaster) ==
  IF daemonSetProgressing(existingMaster[1], TRUE) THEN <<FALSE, TRUE>>
  ELSE <<TRUE, TRUE>>

waitForMasterConversion(existingMaster) ==
  IF daemonSetProgressing(existingMaster[1], FALSE) THEN <<FALSE, TRUE>>
  ELSE <<TRUE, TRUE>>

\* the master has not the desired mode: it converts first, alone
convertMasterFirst_both == <<TRUE, TRUE>>

convertMasterFirst == <<FALSE, TRUE>>

\* "Fresh cluster - full steam ahead!": a tier is absent
fullSteamAhead_masterOnly == <<FALSE, TRUE>>

fullSteamAhead == <<TRUE, TRUE>>

\* <<updateNode, updateMaster>>
shouldUpdateOVNKonIPFamilyChange(existingNode, existingMaster, ipFamilyMode) ==
  IF existingNode = NIL \/ existingMaster = NIL THEN fullSteamAhead
  ELSE LET nodeIPFamilyMode == existingNode[1].ipFamilyMode
           masterIPFamilyMode == existingMaster[1].ipFamilyMode
       IN IF nodeIPFamilyMode = "" \/ masterIPFamilyMode = "" THEN <<TRUE, TRUE>>
          ELSE IF nodeIPFamilyMode = ipFamilyMode /\ masterIPFamilyMode = ipFamilyMode
            THEN <<TRUE, TRUE>>
          ELSE IF masterIPFamilyMode # ipFamilyMode THEN convertMasterFirst
          ELSE waitForMasterConversion(existingMaster)

\* the stager without the check of the prepuller's version
shouldUpdateOVNKonPrepull_anyVersion(existingNode, prePuller, releaseVersion) ==
  IF existingNode = NIL THEN <<TRUE, FALSE>>
  ELSE IF existingNode[1].version = releaseVersion THEN <<TRUE, FALSE>>
  ELSE IF prePuller = NIL THEN <<FALSE, TRUE>>
  ELSE IF daemonSetProgressing(prePuller[1], TRUE) THEN <<FALSE, TRUE>>
  ELSE <<TRUE, FALSE>>

\* "OVN-Kubernetes node is already in the expected release."
nodeAlreadyUpgraded_prepull == <<TRUE, TRUE>>

nodeAlreadyUpgraded == <<TRUE, FALSE>>

\* "Rolling out the no-op prepuller daemonset..."
rolloutPrepuller_skip == <<TRUE, FALSE>>

rolloutPrepuller == <<FALSE, TRUE>>

\* "Waiting for ovnkube-upgrades-prepuller daemonset to finish pulling the
\* image before updating node"
waitForPrepuller_idle == <<FALSE, FALSE>>

waitForPrepuller == <<FALSE, TRUE>>

\* <<updateNode, renderPrepull>>
shouldUpdateOVNKonPrepull(existingNode, prePuller, releaseVersion) ==
  IF existingNode = NIL THEN <<TRUE, FALSE>>
  ELSE IF existingNode[1].version = releaseVersion THEN nodeAlreadyUpgraded
  ELSE IF prePuller = NIL THEN rolloutPrepuller
  ELSE IF prePuller[1].version # releaseVersion THEN <<FALSE, TRUE>>
  ELSE IF daemonSetProgressing(prePuller[1], TRUE) THEN waitForPrepuller
  ELSE <<TRUE, FALSE>>

\* "both older (than CNO): update node only"
upgradeNodeOnly_masterFirst == <<FALSE, TRUE>>

upgradeNodeOnly_both == <<TRUE, TRUE>>

upgradeNodeOnly == <<TRUE, FALSE>>

\* the master is never told that the node tier is done
waitForNode_forever(existingNode) == <<TRUE, FALSE>>

\* "master older, node updated: update master if node is rolled out"
waitForNode_noHung(existingNode) ==
  IF daemonSetProgressing(existingNode[1], FALSE) THEN <<TRUE, FALSE>>
  ELSE <<TRUE, TRUE>>

waitForNode(existingNode) ==
  IF daemonSetProgressing(existingNode[1], TRUE) THEN <<TRUE, FALSE>>
  ELSE <<TRUE, TRUE>>

\* "both newer: downgrade master before node"
downgradeMasterOnly_both == <<TRUE, TRUE>>

downgradeMasterOnly == <<FALSE, TRUE>>

\* "master same, node needs downgrade: wait for master rollout"
waitForMaster(existingMaster) ==
  IF daemonSetProgressing(existingMaster[1], FALSE) THEN <<FALSE, TRUE>>
  ELSE <<TRUE, TRUE>>

\* "OVN-Kubernetes daemonset versions inconsistent": the catch-all return
versionsInconsistent_refuse == <<FALSE, FALSE>>

versionsInconsistent == <<TRUE, TRUE>>

\* a sequencer that holds the master tier back on a fresh cluster
freshCluster_nodeOnly == <<TRUE, FALSE>>

\* "Fresh cluster - full steam ahead!"
freshCluster == <<TRUE, TRUE>>

\* <<updateNode, updateMaster>>
shouldUpdateOVNKonUpgrade(existingNode, existingMaster, releaseVersion) ==
  IF existingNode = NIL \/ existingMaster = NIL THEN freshCluster
  ELSE LET nodeVersion == existingNode[1].version
           masterVersion == existingMaster[1].version
           masterDelta == compareVersions(masterVersion, releaseVersion)
           nodeDelta == compareVersions(nodeVersion, releaseVersion)
       IN IF nodeVersion = releaseVersion /\ masterVersion = releaseVersion
            THEN <<TRUE, TRUE>>
          ELSE IF masterDelta = versionUnknown \/ nodeDelta = versionUnknown
            THEN <<TRUE, TRUE>>
          ELSE IF masterDelta = versionUpgrade /\ nodeDelta = versionUpgrade
            THEN upgradeNodeOnly
          ELSE IF masterDelta = versionUpgrade /\ nodeDelta = versionSame
            THEN waitForNode(existingNode)
          ELSE IF masterDelta = versionDowngrade /\ nodeDelta = versionDowngrade
            THEN downgradeMasterOnly
          ELSE IF masterDelta = versionSame /\ nodeDelta = versionDowngrade
            THEN waitForMaster(existingMaster)
          ELSE IF masterDelta = versionSame /\ nodeDelta = versionSame
            THEN <<TRUE, TRUE>>
          ELSE versionsInconsistent

\* a pass that never refuses a cluster with an external control plane
externalControlPlaneError_never(externalControlPlane) == FALSE

\* renderOVNKubernetes returns "Unable to render OVN in a cluster with an
\* external control plane" before it renders anything
externalControlPlaneError(externalControlPlane) == externalControlPlane

\* the IP family mode of a pass, from len(conf.ServiceNetwork)
ipFamilyModeOf(serviceNetworkLen) ==
  IF serviceNetworkLen = 2 THEN IPFamilyDualStack ELSE IPFamilySingleStack

\* a pass that lets the node tier update without the prepull stage
stageNode_skip(updateNode, existingNode, prePuller, releaseVersion) ==
  <<updateNode, FALSE>>

\* renderPrePull := false; if updateNode, the stager decides both
stageNode(updateNode, existingNode, prePuller, releaseVersion) ==
  IF updateNode
    THEN shouldUpdateOVNKonPrepull(existingNode, prePuller, releaseVersion)
    ELSE <<updateNode, FALSE>>

\* the decision part of renderOVNKubernetes: the gate, then the sequencer when
\* the gate permits both tiers, then the stager when the node may update
renderDecision(existingNode, existingMaster, prePuller, releaseVersion, mode) ==
  LET gate == shouldUpdateOVNKonIPFamilyChange(existingNode, existingMaster, mode)
      upgradeConsulted == gate[2] /\ gate[1]
      versioned == IF upgradeConsulted
                     THEN shouldUpdateOVNKonUpgrade(existingNode, existingMaster, releaseVersion)
                     ELSE gate
      prepullConsulted == versioned[1]
      staged == stageNode(versioned[1], existingNode, prePuller, releaseVersion)
  IN [updateNode |-> staged[1], updateMaster |-> versioned[2],
      renderPrePull |-> staged[2],
      gate |-> gate, upgradeConsulted |-> upgradeConsulted,
      versioned |-> versioned, prepullConsulted |-> prepullConsulted]

(* ------------------------------------------------------------------ *)
(* The objects renderOVNKubernetes returns                              *)
(* ------------------------------------------------------------------ *)

\* an unstructured object; body is a 1-tuple with the daemonset, or NIL
Object(group, kind, namespace, name, body) ==
  [group |-> group, kind |-> kind, namespace |-> namespace, name |-> name,
   body |-> body]

\* a daemonset of openshift-ovn-kubernetes as an object
DaemonSetObject(name, body) ==
  Object("apps", "DaemonSet", "openshift-ovn-kubernetes", name, body)

\* a daemonset as the templates give it: the version annotation is the
\* release, no family marker, no status
renderedDaemonSet(releaseVersion) ==
  DaemonSet(releaseVersion, "", FALSE, 0, 0, 0, 0, 0, 0)

\* the manifests of network/ovn-kubernetes rendered for a release
manifests(releaseVersion) ==
  << Object("", "Namespace", "", "openshift-ovn-kubernetes", NIL),
     Object("", "ConfigMap", "openshift-ovn-kubernetes", "ovnkube-config", NIL),
     DaemonSetObject("ovnkube-master", <<renderedDaemonSet(releaseVersion)>>),
     DaemonSetObject("ovnkube-node", <<renderedDaemonSet(releaseVersion)>>),
     DaemonSetObject("ovnkube-upgrades-prepuller", <<renderedDaemonSet(releaseVersion)>>) >>

\* sets the annotation (object and pod template) on the master and the node
\* daemonset of the list; the key is the IP family mode annotation
setOVNDaemonsetAnnotation(objs, value) ==
  [i \in 1..Len(objs) |->
     IF /\ objs[i].group = "apps" /\ objs[i].kind = "DaemonSet"
        /\ objs[i].name \in {"ovnkube-master", "ovnkube-node"}
       THEN [objs[i] EXCEPT !.body = <<[objs[i].body[1] EXCEPT !.ipFamilyMode = value]>>]
       ELSE objs[i]]

\* k8s.ReplaceObj: the object of the list with the identity of new is replaced
ReplaceObj(objs, new) ==
  [i \in 1..Len(objs) |->
     IF /\ objs[i].group = new.group /\ objs[i].kind = new.kind
        /\ objs[i].namespace = new.namespace /\ objs[i].name = new.name
       THEN new ELSE objs[i]]

RECURSIVE RemoveObjByGroupKindName(_, _, _, _, _)
\* k8s.RemoveObjByGroupKindName
RemoveObjByGroupKindName(objs, group, kind, namespace, name) ==
  IF objs = <<>> THEN <<>>
  ELSE IF /\ Head(objs).group = group /\ Head(objs).kind = kind
          /\ Head(objs).namespace = namespace /\ Head(objs).name = name
    THEN RemoveObjByGroupKindName(Tail(objs), group, kind, namespace, name)
  ELSE <<Head(objs)>> \o RemoveObjByGroupKindName(Tail(objs), group, kind, namespace, name)

\* a pass that returns what it has rendered, whatever it has decided
applyDecision_rendered(objs, updateNode, updateMaster, renderPrePull, existingNode, existingMaster) ==
  objs

\* a withheld tier is replaced by the existing daemonset; the prepuller is
\* removed when it is not to be rendered
applyDecision(objs, updateNode, updateMaster, renderPrePull, existingNode, existingMaster) ==
  LET masterKept == IF ~updateMaster
                      THEN ReplaceObj(objs, DaemonSetObject("ovnkube-master", existingMaster))
                      ELSE objs
      nodeKept == IF ~updateNode
                    THEN ReplaceObj(masterKept, DaemonSetObject("ovnkube-node", existingNode))
                    ELSE masterKept
  IN IF ~renderPrePull
       THEN RemoveObjByGroupKindName(nodeKept, "apps", "DaemonSet",
                                     "openshift-ovn-kubernetes", "ovnkube-upgrades-prepuller")
       ELSE nodeKept

\* the objects of a pass: rendered, annotated with the mode, the decision applied
renderObjects(existingNode, existingMaster, prePuller, releaseVersion, mode) ==
  LET d == renderDecision(existingNode, existingMaster, prePuller, releaseVersion, mode)
  IN applyDecision(setOVNDaemonsetAnnotation(manifests(releaseVersion), mode),
                   d.updateNode, d.updateMaster, d.renderPrePull,
                   existingNode, existingMaster)

(* ------------------------------------------------------------------ *)
(* Bootstrap: control-plane nodes, addresses, initiator election        *)
(* ------------------------------------------------------------------ *)

\* an address is the tuple of its characters, "" the empty tuple; the
\* addresses of the nodes differ in their last part only, which is given
Address(chars) == chars

\* the control-plane nodes the directory may list, in the order it lists them
NodePool ==
  << [name |-> "master-0",
      addresses |-> << [type |-> "InternalIP", address |-> Address(<<1, 0>>)] >>],
     [name |-> "master-1",
      addresses |-> << [type |-> "Hostname", address |-> Address(<<9>>)],
                       [type |-> "InternalIP", address |-> Address(<<2>>)],
                       [type |-> "InternalIP", address |-> Address(<<3>>)] >>],
     [name |-> "master-2",
      addresses |-> << [type |-> "InternalIP", address |-> Address(<<1>>)] >>],
     [name |-> "master-3",
      addresses |-> << [type |-> "ExternalIP", address |-> Address(<<7>>)] >>] >>

RECURSIVE pick(_, _, _)
\* the nodes of the pool with an index in idx, from position i on
pick(pool, idx, i) ==
  IF i > Len(pool) THEN <<>>
  ELSE IF i \in idx THEN <<pool[i]>> \o pick(pool, idx, i + 1)
  ELSE pick(pool, idx, i + 1)

\* what one listing of the nodes labelled node-role.kubernetes.io/master may hold
Listings == {pick(NodePool, idx, 1) : idx \in SUBSET (1..Len(NodePool))}

\* string comparison, character by character
RECURSIVE LexLess(_, _)
LexLess(a, b) ==
  IF b = <<>> THEN FALSE
  ELSE IF a = <<>> THEN TRUE
  ELSE IF Head(a) # Head(b) THEN Head(a) < Head(b)
  ELSE LexLess(Tail(a), Tail(b))

RECURSIVE insertSorted(_, _)
insertSorted(x, sorted) ==
  IF sorted = <<>> THEN <<x>>
  ELSE IF LexLess(Head(sorted), x) THEN <<Head(sorted)>> \o insertSorted(x, Tail(sorted))
  ELSE <<x>> \o sorted

\* the addresses left in the order the directory listed the nodes
sortStrings_asListed(strs) == strs

RECURSIVE sortStrings(_)
\* sort.Strings
sortStrings(strs) ==
  IF strs = <<>> THEN <<>> ELSE insertSorted(Head(strs), sortStrings(Tail(strs)))

\* the first address of a node, whatever its type
internalIP_anyType(addresses) ==
  IF addresses = <<>> THEN <<>> ELSE Head(addresses).address

RECURSIVE internalIP(_)
\* the first address of type InternalIP of a node's addresses, "" without one
internalIP(addresses) ==
  IF addresses = <<>> THEN <<>>
  ELSE IF Head(addresses).type = "InternalIP" THEN Head(addresses).address
  ELSE internalIP(Tail(addresses))

\* ovnMasterIPs before the sort: one entry per listed node
extractIPs(items) == [i \in 1..Len(items) |-> internalIP(items[i].addresses)]

\* the persisted initiator counts whatever the members are
currentInitiatorExists_unchecked(ovnMasterIPs, configInitiator) == TRUE

\* the persisted initiator counts only while it is the smallest address
currentInitiatorExists_smallest(ovnMasterIPs, configInitiator) ==
  ovnMasterIPs # <<>> /\ ovnMasterIPs[1] = configInitiator

currentInitiatorExists(ovnMasterIPs, configInitiator) ==
  \E i \in 1..Len(ovnMasterIPs) : ovnMasterIPs[i] = configInitiator

\* annotations of the operator configuration: a function from keys to values
OVNRaftClusterInitiator == "network.operator.openshift.io/ovn-cluster-initiator"

\* strconv.Atoi of the replicas field, its error dropped
ReplicaStrings == {ToString(n) : n \in 0..MaxReplicas} \cup {"", "three"}
Atoi(str) ==
  IF \E n \in 0..MaxReplicas : ToString(n) = str
    THEN CHOOSE n \in 0..MaxReplicas : ToString(n) = str
    ELSE 0

\* the shrink of the deadline after wait.ErrWaitTimeout
shrinkTimeout_noGuard(timeout) == timeout - OVN_MASTER_DISCOVERY_BACKOFF

shrinkTimeout(timeout) ==
  IF timeout - OVN_MASTER_DISCOVERY_BACKOFF > 0
    THEN timeout - OVN_MASTER_DISCOVERY_BACKOFF
    ELSE timeout

\* the poll condition without its test of an empty listing
conditionDone_emptyCounts(items, controlPlaneReplicaCount) ==
  controlPlaneReplicaCount = Len(items)

\* the poll condition on a listing: done when the list is not empty and has
\* as many nodes as the install-config asks for
conditionDone(items, controlPlaneReplicaCount) ==
  Len(items) # 0 /\ controlPlaneReplicaCount = Len(items)

\* what the reads after the election may do
ReadOutcomes == {"ok", "okExternalControlPlane", "daemonSetError", "infraError"}

\* the result of a call: a snapshot, an error or a panic
Result(kind, cause, ips, initiator, external, timedOut) ==
  [kind |-> kind, cause |-> cause, MasterIPs |-> ips,
   ClusterInitiator |-> initiator, ExternalControlPlane |-> external,
   timedOut |-> timedOut]

NoResult == Result("none", "", <<>>, <<>>, FALSE, FALSE)

\* the annotations with the elected initiator written into them
setInitiator_alone(annotations, clusterInitiator) ==
  [k \in {OVNRaftClusterInitiator} |-> clusterInitiator]

setInitiator(annotations, clusterInitiator) ==
  [k \in DOMAIN annotations \cup {OVNRaftClusterInitiator} |->
     IF k = OVNRaftClusterInitiator THEN clusterInitiator ELSE annotations[k]]

\* the deadline after the poll has returned err: "nil", "ErrWaitTimeout" or
\* the error of a listing
deadlineAfterPoll_anyError(err, timeout) ==
  IF err # "nil" THEN shrinkTimeout(timeout) ELSE timeout

deadlineAfterPoll(err, timeout) ==
  IF err = "ErrWaitTimeout" THEN shrinkTimeout(timeout) ELSE timeout

\* bootstrapOVN from the end of the poll on: address extraction, sort, election
\* and the remaining reads.  Gives the result and the annotations it leaves.
afterPoll(items, annotations, timedOut, reads) ==
  LET ips == extractIPs(items)
      ovnMasterIPs == sortStrings(ips)
      keep == /\ OVNRaftClusterInitiator \in DOMAIN annotations
              /\ currentInitiatorExists(ovnMasterIPs, annotations[OVNRaftClusterInitiator])
  IN IF \E i \in 1..Len(ips) : ips[i] = <<>>
       THEN [result |-> Result("error", "noInternalIP", <<>>, <<>>, FALSE, timedOut),
             annotations |-> annotations]
     ELSE IF ~keep /\ ovnMasterIPs = <<>>
       \* ovnMasterIPs[0] of an empty slice
       THEN [result |-> Result("panic", "indexOutOfRange", <<>>, <<>>, FALSE, timedOut),
             annotations |-> annotations]
     ELSE LET clusterInitiator == IF keep THEN annotations[OVNRaftClusterInitiator]
                                  ELSE ovnMasterIPs[1]
              written == IF keep THEN annotations
                         ELSE setInitiator(annotations, clusterInitiator)
          IN IF reads \in {"daemonSetError", "infraError"}
               THEN [result |-> Result("error", reads, <<>>, <<>>, FALSE, timedOut),
                     annotations |-> written]
             ELSE [result |-> Result("snapshot", "", ovnMasterIPs, clusterInitiator,
                                     reads = "okExternalControlPlane", timedOut),
                   annotations |-> written]

(* ------------------------------------------------------------------ *)
(* bootstrapFlowsConfig: the ovs-flows-config map                       *)
(* ------------------------------------------------------------------ *)

\* a value of the map is the tuple of its characters
Digits == {"0", "1", "2", "3", "4", "5", "6", "7", "8", "9"}

DigitValue ==
  [c \in Digits |->
     CASE c = "0" -> 0 [] c = "1" -> 1 [] c = "2" -> 2 [] c = "3" -> 3
       [] c = "4" -> 4 [] c = "5" -> 5 [] c = "6" -> 6 [] c = "7" -> 7
       [] c = "8" -> 8 [] c = "9" -> 9]

RECURSIVE digitPrefix(_)
\* the longest prefix of digits
digitPrefix(str) ==
  IF str = <<>> \/ Head(str) \notin Digits THEN <<>>
  ELSE <<Head(str)>> \o digitPrefix(Tail(str))

RECURSIVE letterPrefix(_)
\* the longest prefix without digit
letterPrefix(str) ==
  IF str = <<>> \/ Head(str) \in Digits THEN <<>>
  ELSE <<Head(str)>> \o letterPrefix(Tail(str))

RECURSIVE stripZeros(_)
stripZeros(digits) ==
  IF digits # <<>> /\ Head(digits) = "0" THEN stripZeros(Tail(digits)) ELSE digits

\* the digits of 1<<32 - 1
MaxUint32Digits == <<4, 2, 9, 4, 9, 6, 7, 2, 9, 5>>

\* the number written by the digits is above 1<<32 - 1
exceedsUint32(digits) ==
  LET d == stripZeros(digits)
      v == [i \in 1..Len(d) |-> DigitValue[d[i]]]
  IN \/ Len(d) > Len(MaxUint32Digits)
     \/ Len(d) = Len(MaxUint32Digits) /\ LexLess(MaxUint32Digits, v)

RECURSIVE digitsValue(_, _)
\* the number written by the digits, after acc
digitsValue(digits, acc) ==
  IF digits = <<>> THEN acc
  ELSE digitsValue(Tail(digits), 10 * acc + DigitValue[Head(digits)])

\* strconv.ParseUint(str, 10, 32): <<value, err>>; no sign is accepted
ParseUint(str) ==
  IF str = <<>> THEN <<0, "ErrSyntax">>
  ELSE IF digitPrefix(str) # str THEN <<0, "ErrSyntax">>
  ELSE IF exceedsUint32(str) THEN <<0, "ErrRange">>
  ELSE <<digitsValue(str, 0), "">>

\* the milliseconds of a unit of time.ParseDuration, 0 for no unit
unitMillis(unit) ==
  CASE unit = <<"m", "s">> -> 1
    [] unit = <<"s">> -> 1000
    [] unit = <<"m">> -> 60000
    [] unit = <<"h">> -> 3600000
    [] OTHER -> 0

RECURSIVE durationGroups(_, _)
\* the groups of digits and unit of a duration, after acc milliseconds
durationGroups(str, acc) ==
  IF str = <<>> THEN <<acc, "">>
  ELSE LET digits == digitPrefix(str)
           rest == SubSeq(str, Len(digits) + 1, Len(str))
           unit == letterPrefix(rest)
       IN IF digits = <<>> THEN <<0, "invalid duration">>
          ELSE IF unit = <<>> THEN <<0, "missing unit in duration">>
          ELSE IF unitMillis(unit) = 0 THEN <<0, "unknown unit in duration">>
          ELSE durationGroups(SubSeq(rest, Len(unit) + 1, Len(rest)),
                              acc + digitsValue(digits, 0) * unitMillis(unit))

\* time.ParseDuration on unsigned durations of whole numbers, in
\* milliseconds: <<value, err>>
ParseDuration(str) ==
  IF str = <<"0">> THEN <<0, "">>
  ELSE IF str = <<>> THEN <<0, "invalid duration">>
  ELSE durationGroups(str, 0)

\* what the map may hold under cacheActiveTimeout
DurationStrings ==
  { <<"3", "0", "s">>, <<"1", "5", "0", "0", "m", "s">>, <<"1", "m", "3", "0", "s">>,
    <<"0">>, <<"6", "0">>, <<"5", "x">>, <<>> }

\* what the map may hold under cacheMaxFlows and under sampling
UintStrings ==
  { <<"1", "0", "0">>, <<"0", "7">>, <<"-", "1">>, <<"1", "e", "3">>, <<>>,
    <<"4", "2", "9", "4", "9", "6", "7", "2", "9", "6">> }

\* a key of the map: absent (nil) or present with one of the values
Entry(values) == {NIL} \cup {<<v>> : v \in values}

\* cm.Data
FlowsData ==
  [sharedTarget : Entry({"collector:2055"}), nodePort : Entry({"30000"}),
   cacheActiveTimeout : Entry(DurationStrings),
   cacheMaxFlows : Entry(UintStrings), sampling : Entry(UintStrings)]

\* what the Get of the map does
FetchOutcomes == {"ok", "notFound", "error"}

\* fc.CacheActiveTimeout: the whole seconds of the duration
cacheActiveTimeoutField(entry) ==
  IF entry = NIL THEN NIL
  ELSE LET catd == ParseDuration(entry[1])
       IN IF catd[2] # "" THEN NIL ELSE <<catd[1] \div 1000>>

\* a field that takes 0 from a value that does not parse
uintField_unchecked(entry) ==
  IF entry = NIL THEN NIL ELSE <<ParseUint(entry[1])[1]>>

\* fc.CacheMaxFlows and fc.Sampling
uintField(entry) ==
  IF entry = NIL THEN NIL
  ELSE LET parsed == ParseUint(entry[1])
       IN IF parsed[2] # "" THEN NIL ELSE <<parsed[1]>>

\* bootstrap.FlowsConfig with its target, pieces of text in a tuple
FlowsConfig(target, data) ==
  [Target |-> target,
   CacheActiveTimeout |-> cacheActiveTimeoutField(data.cacheActiveTimeout),
   CacheMaxFlows |-> uintField(data.cacheMaxFlows),
   Sampling |-> uintField(data.sampling)]

\* a pointer to the flows configuration, or nil
bootstrapFlowsConfig(fetch, data) ==
  IF fetch # "ok" THEN NIL
  ELSE IF data.sharedTarget # NIL THEN <<FlowsConfig(<<data.sharedTarget[1]>>, data)>>
  ELSE IF data.nodePort # NIL THEN <<FlowsConfig(<<":", data.nodePort[1]>>, data)>>
  ELSE NIL

(* ------------------------------------------------------------------ *)
(* isOVNKubernetesChangeSafe: the checks of a change of configuration   *)
(* ------------------------------------------------------------------ *)

\* a uint32 is the pair <<high, low>> of its 16-bit halves
Uint32Half == 65536

Uint32(high, low) == <<high, low>>

\* a + b in uint32 arithmetic: the carry out of the high half is dropped
addUint32(a, b) ==
  LET low == a[2] + b[2]
      high == a[1] + b[1] + low \div Uint32Half
  IN Uint32(high % Uint32Half, low % Uint32Half)

\* a > b of two uint32
greaterUint32(a, b) == a[1] > b[1] \/ (a[1] = b[1] /\ a[2] > b[2])

geneveOverhead == 100
ipsecOverhead == 46

\* the spec of the network: the fields of OVNKubernetesConfig that are read
\* and Migration.MTU (nil when Migration or Migration.MTU is nil)
NetworkSpec(mtu, genevePort, hybridOverlayConfig, ipsecConfig, migrationMTU) ==
  [MTU |-> mtu, GenevePort |-> genevePort,
   HybridOverlayConfig |-> hybridOverlayConfig, IPsecConfig |-> ipsecConfig,
   MigrationMTU |-> migrationMTU]

\* Migration.MTU: pointers to the Network values (From, To) and to the
\* Machine values (To), each of From and To a pointer to a uint32
MTUMigration(network, machine) == [Network |-> network, Machine |-> machine]
MTUMigrationValues(from, to) == [From |-> from, To |-> to]

\* the overhead of the encapsulation, as a uint32
getOVNEncapOverhead(conf) ==
  IF conf.IPsecConfig # NIL
    THEN addUint32(Uint32(0, geneveOverhead), Uint32(0, ipsecOverhead))
    ELSE Uint32(0, geneveOverhead)

\* the checks of Migration.MTU when all its fields are there: <<errors, panic>>
checkMigrationMTU(prev, next) ==
  LET mtu == next.MigrationMTU[1]
      from == mtu.Network[1].From
      checkPrevMTU == \/ prev.MigrationMTU = NIL
                      \/ prev.MigrationMTU[1].Network = NIL
                      \/ prev.MigrationMTU[1].Network[1].From # from
      fromErr == checkPrevMTU /\ from # prev.MTU
      toErr == greaterUint32(addUint32(mtu.Network[1].To[1], getOVNEncapOverhead(next)),
                             mtu.Machine[1].To[1])
  IN \* the message of the first error reads *pn.MTU
     IF fromErr /\ prev.MTU = NIL THEN <<<<>>, TRUE>>
     ELSE <<(IF fromErr THEN <<"migrationFromNotCurrentMTU">> ELSE <<>>)
              \o (IF toErr THEN <<"migrationMachineToTooSmall">> ELSE <<>>),
            FALSE>>

\* the errors about the MTU: <<errors, panic>>
checkMTU(prev, next) ==
  IF next.MigrationMTU # NIL
    THEN LET mtuNet == next.MigrationMTU[1].Network
             mtuMach == next.MigrationMTU[1].Machine
         IN IF \/ mtuNet = NIL \/ mtuMach = NIL
               \/ mtuNet[1].From = NIL \/ mtuNet[1].To = NIL
               \/ mtuMach[1].To = NIL
              THEN <<<<"migrationFieldMissing">>, FALSE>>
              ELSE checkMigrationMTU(prev, next)
  ELSE IF prev.MTU # next.MTU THEN <<<<"mtuChangeWithoutMigration">>, FALSE>>
  ELSE <<<<>>, FALSE>>

\* the result of isOVNKubernetesChangeSafe: the errors in order, or a panic
isOVNKubernetesChangeSafe(prev, next) ==
  LET mtu == checkMTU(prev, next)
  IN IF mtu[2] THEN [kind |-> "panic", errs |-> <<>>]
     ELSE [kind |-> "errors",
           errs |->
             mtu[1]
             \o (IF prev.GenevePort # next.GenevePort
                   THEN <<"genevePortChanged">> ELSE <<>>)
             \o (IF prev.HybridOverlayConfig = NIL /\ next.HybridOverlayConfig # NIL
                   THEN <<"hybridOverlayStarted">> ELSE <<>>)
             \o (IF /\ prev.HybridOverlayConfig # NIL
                    /\ prev.HybridOverlayConfig # next.HybridOverlayConfig
                   THEN <<"hybridOverlayEdited">> ELSE <<>>)
             \o (IF prev.IPsecConfig = NIL /\ next.IPsecConfig # NIL
                   THEN <<"ipsecEnabled">> ELSE <<>>)
             \o (IF prev.IPsecConfig # NIL /\ prev.IPsecConfig # next.IPsecConfig
                   THEN <<"ipsecEdited">> ELSE <<>>)]

\* uint32 values of an MTU: usual ones, ones whose low half carries when the
\* overhead is added, and ones within the overhead of 2^32
NetworkToValues ==
  {Uint32(0, 1400), Uint32(0, 1354), Uint32(0, 65500),
   Uint32(65535, 65389), Uint32(65535, 65390), Uint32(65535, 65436),
   Uint32(65535, 65535)}

MachineToValues ==
  {Uint32(0, 0), Uint32(0, 99), Uint32(0, 1499), Uint32(0, 1500),
   Uint32(1, 63), Uint32(1, 64), Uint32(65535, 65535)}

\* the specs a change goes to
NextSpecs ==
  {NetworkSpec(mtu, port, hybrid, ipsec, migration) :
     mtu \in {NIL, <<Uint32(0, 1400)>>},
     port \in {NIL, <<6081>>},
     hybrid \in {NIL, <<"hybrid-a">>},
     ipsec \in {NIL, <<"ipsec-a">>},
     migration \in {NIL} \cup
       {<<MTUMigration(network, machine)>> :
          network \in {NIL} \cup
            {<<MTUMigrationValues(from, to)>> :
               from \in {NIL, <<Uint32(0, 1400)>>},
               to \in {NIL} \cup {<<v>> : v \in NetworkToValues}},
          machine \in {NIL} \cup
            {<<[To |-> to]>> : to \in {NIL} \cup {<<v>> : v \in MachineToValues}}}}

\* the specs a change comes from
PrevSpecs ==
  {NetworkSpec(mtu, port, hybrid, ipsec, migration) :
     mtu \in {NIL, <<Uint32(0, 1400)>>, <<Uint32(0, 1300)>>},
     port \in {NIL, <<6081>>},
     hybrid \in {NIL, <<"hybrid-a">>},
     ipsec \in {NIL, <<"ipsec-b">>},
     migration \in {NIL, <<MTUMigration(NIL, NIL)>>,
                    <<MTUMigration(<<MTUMigrationValues(<<Uint32(0, 1400)>>, NIL)>>, NIL)>>}}

(* ------------------------------------------------------------------ *)
(* State                                                                *)
(* ------------------------------------------------------------------ *)

VARIABLES
  op,              \* the operation that produced the results below
  ds, allowHung,   \* arguments of daemonSetProgressing
  progressing,     \* its result
  existingNode, existingMaster, prePuller,   \* bootstrapResult.OVN.*Daemonset
  releaseVersion,  \* os.Getenv("RELEASE_VERSION")
  ipFamilyMode,    \* the IP family mode of the pass
  ret,             \* the result pair of a decision function called on its own
  decision,        \* the decision of renderOVNKubernetes
  objs,            \* the objects renderOVNKubernetes returns
  OVN_MASTER_DISCOVERY_TIMEOUT,  \* the process-wide discovery deadline
  confAnnotations, \* annotations of the operator configuration object
  bpc,             \* where the bootstrapOVN call is: "idle", "polling", "panicked"
  controlPlaneReplicaCount,   \* of the running call or of the last one
  heartBeat, ticks,   \* of the running call
  pollTimeout,     \* the deadline given to the poll of the running or last call
  masterNodeList,  \* the items of the last listing
  bootstrapResult, \* what the last call returned
  clNode, clMaster, clPrePuller,   \* the daemonsets of the cluster (nil: none)
  desiredVersion,  \* RELEASE_VERSION of the operator that runs
  desiredMode,     \* the IP family mode of the network configuration
  overlap,         \* a pass has converted the master ahead of a pending upgrade
  cmFetch, cmData, \* the Get of the ovs-flows-config map and its Data
  flowsConfig,     \* what bootstrapFlowsConfig returned
  callPc,          \* where each of the concurrent bootstrapOVN calls is
  callTimeout,     \* the deadline the poll of each concurrent call was given
  prevSpec, nextSpec,   \* the arguments of isOVNKubernetesChangeSafe
  changeErrors     \* what it returned

passVars == <<op, ds, allowHung, progressing, existingNode, existingMaster,
              prePuller, releaseVersion, ipFamilyMode, ret, decision, objs>>

bootVars == <<OVN_MASTER_DISCOVERY_TIMEOUT, confAnnotations, bpc,
              controlPlaneReplicaCount, pollTimeout, heartBeat, ticks,
              masterNodeList, bootstrapResult>>

clusterVars == <<clNode, clMaster, clPrePuller, desiredVersion, desiredMode,
                 overlap>>

flowVars == <<cmFetch, cmData, flowsConfig>>

concVars == <<callPc, callTimeout>>

changeVars == <<prevSpec, nextSpec, changeErrors>>

vars == <<passVars, bootVars, clusterVars, flowVars, concVars, changeVars>>

NodePointers == TierPointers(Versions, FamilyMarkers)
MasterPointers == TierPointers(Versions, FamilyMarkers)
\* the family marker of the prepuller is never read
PrePullerPointers == TierPointers(Versions, {""})

InitPass ==
  /\ op = "none"
  /\ ds = DaemonSet("", "", FALSE, 0, 0, 0, 0, 1, 1)
  /\ allowHung = FALSE
  /\ progressing = FALSE
  /\ existingNode = NIL
  /\ existingMaster = NIL
  /\ prePuller = NIL
  /\ releaseVersion = ""
  /\ ipFamilyMode = IPFamilySingleStack
  /\ ret = <<TRUE, TRUE>>
  /\ decision = renderDecision(NIL, NIL, NIL, "", IPFamilySingleStack)
  /\ objs = <<>>

InitBootstrap ==
  /\ OVN_MASTER_DISCOVERY_TIMEOUT = InitialDiscoveryTimeout
  /\ confAnnotations = [k \in {"owner"} |-> "cluster"]
  /\ bpc = "idle"
  /\ controlPlaneReplicaCount = 0
  /\ pollTimeout = 0
  /\ heartBeat = 0
  /\ ticks = 0
  /\ masterNodeList = <<>>
  /\ bootstrapResult = NoResult

InitCluster ==
  /\ clNode = NIL
  /\ clMaster = NIL
  /\ clPrePuller = NIL
  /\ desiredVersion = ""
  /\ desiredMode = IPFamilySingleStack
  /\ overlap = FALSE

InitFlows ==
  /\ cmFetch = "notFound"
  /\ cmData = [sharedTarget |-> NIL, nodePort |-> NIL, cacheActiveTimeout |-> NIL,
               cacheMaxFlows |-> NIL, sampling |-> NIL]
  /\ flowsConfig = NIL

\* no call of bootstrapOVN is running
InitConcurrent ==
  /\ callPc = [c \in Calls |-> "idle"]
  /\ callTimeout = [c \in Calls |-> 0]

\* no change has been checked
InitChange ==
  /\ prevSpec = NetworkSpec(NIL, NIL, NIL, NIL, NIL)
  /\ nextSpec = NetworkSpec(NIL, NIL, NIL, NIL, NIL)
  /\ changeErrors = [kind |-> "none", errs |-> <<>>]

Init ==
  /\ InitPass /\ InitBootstrap /\ InitCluster /\ InitFlows /\ InitConcurrent
  /\ InitChange

(* ------------------------------------------------------------------ *)
(* Actions of the decision engine and of bootstrapFlowsConfig           *)
(* ------------------------------------------------------------------ *)

\* daemonSetProgressing(d, h) on a daemonset status
CallDaemonSetProgressing ==
  /\ op = "none"
  /\ \E d \in EvaluatorDaemonSets, h \in BOOLEAN :
       /\ ds' = d
       /\ allowHung' = h
       /\ progressing' = daemonSetProgressing(d, h)
  /\ op' = "daemonSetProgressing"
  /\ UNCHANGED <<existingNode, existingMaster, prePuller, releaseVersion,
                 ipFamilyMode, ret, decision, objs>>
  /\ UNCHANGED bootVars
  /\ UNCHANGED clusterVars
  /\ UNCHANGED flowVars
  /\ UNCHANGED concVars
  /\ UNCHANGED changeVars

\* shouldUpdateOVNKonIPFamilyChange(node, master, mode)
CallIPFamilyChange ==
  /\ op = "none"
  /\ \E n \in NodePointers, m \in MasterPointers,
        mode \in {IPFamilySingleStack, IPFamilyDualStack} :
       /\ existingNode' = n
       /\ existingMaster' = m
       /\ ipFamilyMode' = mode
       /\ ret' = shouldUpdateOVNKonIPFamilyChange(n, m, mode)
  /\ op' = "shouldUpdateOVNKonIPFamilyChange"
  /\ UNCHANGED <<ds, allowHung, progressing, prePuller, releaseVersion, decision, objs>>
  /\ UNCHANGED bootVars
  /\ UNCHANGED clusterVars
  /\ UNCHANGED flowVars
  /\ UNCHANGED concVars
  /\ UNCHANGED changeVars

\* shouldUpdateOVNKonUpgrade(node, master, release)
CallUpgrade ==
  /\ op = "none"
  /\ \E n \in NodePointers, m \in MasterPointers, r \in Versions :
       /\ existingNode' = n
       /\ existingMaster' = m
       /\ releaseVersion' = r
       /\ ret' = shouldUpdateOVNKonUpgrade(n, m, r)
  /\ op' = "shouldUpdateOVNKonUpgrade"
  /\ UNCHANGED <<ds, allowHung, progressing, prePuller, ipFamilyMode, decision, objs>>
  /\ UNCHANGED bootVars
  /\ UNCHANGED clusterVars
  /\ UNCHANGED flowVars
  /\ UNCHANGED concVars
  /\ UNCHANGED changeVars

\* shouldUpdateOVNKonPrepull(node, prepuller, release)
CallPrepull ==
  /\ op = "none"
  /\ \E n \in NodePointers, p \in PrePullerPointers, r \in Versions :
       /\ existingNode' = n
       /\ prePuller' = p
       /\ releaseVersion' = r
       /\ ret' = shouldUpdateOVNKonPrepull(n, p, r)
  /\ op' = "shouldUpdateOVNKonPrepull"
  /\ UNCHANGED <<ds, allowHung, progressing, existingMaster, ipFamilyMode, decision, objs>>
  /\ UNCHANGED bootVars
  /\ UNCHANGED clusterVars
  /\ UNCHANGED flowVars
  /\ UNCHANGED concVars
  /\ UNCHANGED changeVars

\* one reconciliation pass of renderOVNKubernetes on a bootstrap result
Render ==
  /\ op = "none"
  /\ \E externalControlPlane \in BOOLEAN :
       IF externalControlPlaneError(externalControlPlane)
         THEN /\ op' = "renderOVNKubernetesError"
              /\ UNCHANGED <<existingNode, existingMaster, prePuller,
                             releaseVersion, ipFamilyMode, decision, objs>>
         ELSE /\ \E n \in NodePointers, m \in MasterPointers, p \in PrePullerPointers,
                    r \in Versions, serviceNetworkLen \in 1..2 :
                   /\ existingNode' = n
                   /\ existingMaster' = m
                   /\ prePuller' = p
                   /\ releaseVersion' = r
                   /\ ipFamilyMode' = ipFamilyModeOf(serviceNetworkLen)
                   /\ decision' = renderDecision(n, m, p, r, ipFamilyModeOf(serviceNetworkLen))
                   /\ objs' = renderObjects(n, m, p, r, ipFamilyModeOf(serviceNetworkLen))
              /\ op' = "renderOVNKubernetes"
  /\ UNCHANGED <<ds, allowHung, progressing, ret>>
  /\ UNCHANGED bootVars
  /\ UNCHANGED clusterVars
  /\ UNCHANGED flowVars
  /\ UNCHANGED concVars
  /\ UNCHANGED changeVars

\* bootstrapFlowsConfig(cl) on a state of the ovs-flows-config map
CallBootstrapFlowsConfig ==
  /\ op = "none"
  /\ \E fetch \in FetchOutcomes, data \in FlowsData :
       /\ cmFetch' = fetch
       /\ cmData' = data
       /\ flowsConfig' = bootstrapFlowsConfig(fetch, data)
  /\ op' = "bootstrapFlowsConfig"
  /\ UNCHANGED <<ds, allowHung, progressing, existingNode, existingMaster,
                 prePuller, releaseVersion, ipFamilyMode, ret, decision, objs>>
  /\ UNCHANGED bootVars
  /\ UNCHANGED clusterVars
  /\ UNCHANGED concVars
  /\ UNCHANGED changeVars

Next ==
  \/ CallBootstrapFlowsConfig
  \/ CallDaemonSetProgressing
  \/ CallIPFamilyChange
  \/ CallUpgrade
  \/ CallPrepull
  \/ Render

Spec == Init /\ [][Next]_vars

(* ------------------------------------------------------------------ *)
(* Actions of bootstrapOVN, one call at a time                          *)
(* ------------------------------------------------------------------ *)

\* what reading the cluster config, the install-config and the OVN config does
ConfigOutcomes == {"ok", "clusterConfigError", "installConfigError", "ovnConfigError"}

\* the call returns err before or during the poll, the annotations as they
\* were; timeout is the deadline its poll was given (0 before the poll)
returnError(cause, timeout) ==
  /\ bootstrapResult' = Result("error", cause, <<>>, <<>>, FALSE, FALSE)
  /\ bpc' = "idle"
  /\ controlPlaneReplicaCount' = 0
  /\ pollTimeout' = timeout
  /\ heartBeat' = 0
  /\ ticks' = 0
  /\ UNCHANGED confAnnotations

\* the reads that are reached after the poll has ended with the listing items
readsReached(items, annotations) ==
  IF afterPoll(items, annotations, FALSE, "ok").result.kind = "snapshot"
    THEN ReadOutcomes ELSE {"ok"}

\* the poll has ended with the listing items: the deadline shrinks after a
\* timeout, then the rest of the call runs
finish(items, count, timeout, timedOut, reads) ==
  LET r == afterPoll(items, confAnnotations, timedOut, reads)
  IN /\ OVN_MASTER_DISCOVERY_TIMEOUT' =
          deadlineAfterPoll(IF timedOut THEN "ErrWaitTimeout" ELSE "nil",
                            OVN_MASTER_DISCOVERY_TIMEOUT)
     /\ confAnnotations' = r.annotations
     /\ bootstrapResult' = r.result
     /\ bpc' = IF r.result.kind = "panic" THEN "panicked" ELSE "idle"
     /\ masterNodeList' = items
     /\ controlPlaneReplicaCount' = count
     /\ pollTimeout' = timeout
     /\ heartBeat' = 0
     /\ ticks' = 0

\* one run of the poll condition; closed: the poller's channel is closed, this
\* is the last run and wait.ErrWaitTimeout follows unless the condition is done
attempt(count, timeout, beats, tk, closed) ==
  \/ /\ returnError("listError", timeout)
     /\ OVN_MASTER_DISCOVERY_TIMEOUT' =
          deadlineAfterPoll("listError", OVN_MASTER_DISCOVERY_TIMEOUT)
     /\ masterNodeList' = IF bpc = "idle" THEN <<>> ELSE masterNodeList
  \/ \E items \in Listings :
       IF conditionDone(items, count)
         THEN \E reads \in readsReached(items, confAnnotations) :
                finish(items, count, timeout, FALSE, reads)
       ELSE IF closed
         THEN \E reads \in readsReached(items, confAnnotations) :
                finish(items, count, timeout, TRUE, reads)
       ELSE /\ bpc' = "polling"
            /\ controlPlaneReplicaCount' = count
            /\ pollTimeout' = timeout
            /\ heartBeat' = beats + 1
            /\ ticks' = tk
            /\ masterNodeList' = items
            /\ bootstrapResult' = NoResult
            /\ UNCHANGED <<OVN_MASTER_DISCOVERY_TIMEOUT, confAnnotations>>

\* a call of bootstrapOVN up to and with the immediate run of the condition
BootstrapOVN ==
  /\ bpc = "idle"
  /\ \E cfg \in ConfigOutcomes :
       IF cfg # "ok"
         THEN /\ returnError(cfg, 0)
              /\ masterNodeList' = <<>>
              /\ UNCHANGED OVN_MASTER_DISCOVERY_TIMEOUT
         ELSE \E replicas \in ReplicaStrings :
                attempt(Atoi(replicas), OVN_MASTER_DISCOVERY_TIMEOUT, 0, 0, FALSE)
  /\ op' = "none"
  /\ UNCHANGED <<ds, allowHung, progressing, existingNode, existingMaster,
                 prePuller, releaseVersion, ipFamilyMode, ret, decision, objs>>
  /\ UNCHANGED clusterVars
  /\ UNCHANGED flowVars
  /\ UNCHANGED concVars
  /\ UNCHANGED changeVars

\* the next tick of the poller comes before the deadline or with it
tickDue_late(tk, timeout) ==
  (tk + 1) * OVN_MASTER_DISCOVERY_POLL <= timeout + OVN_MASTER_DISCOVERY_POLL

tickDue(tk, timeout) ==
  (tk + 1) * OVN_MASTER_DISCOVERY_POLL <= timeout

\* the poller ticks every OVN_MASTER_DISCOVERY_POLL seconds before the deadline
PollTick ==
  /\ bpc = "polling"
  /\ tickDue(ticks, pollTimeout)
  /\ attempt(controlPlaneReplicaCount, pollTimeout, heartBeat, ticks + 1, FALSE)
  /\ UNCHANGED passVars
  /\ UNCHANGED clusterVars
  /\ UNCHANGED flowVars
  /\ UNCHANGED concVars
  /\ UNCHANGED changeVars

\* the deadline has passed (ticks are dropped while a listing is running)
PollTimeout ==
  /\ bpc = "polling"
  /\ attempt(controlPlaneReplicaCount, pollTimeout, heartBeat, ticks, TRUE)
  /\ UNCHANGED passVars
  /\ UNCHANGED clusterVars
  /\ UNCHANGED flowVars
  /\ UNCHANGED concVars
  /\ UNCHANGED changeVars

NextBootstrap ==
  \/ BootstrapOVN
  \/ PollTick
  \/ PollTimeout

SpecBootstrap == Init /\ [][NextBootstrap]_vars

\* the calls of bootstrapOVN with a timer that fires: the poller closes its
\* channel when the deadline of the poll has passed
SpecPoll == Init /\ [][NextBootstrap]_vars /\ WF_vars(PollTimeout)

(* ------------------------------------------------------------------ *)
(* A reconciliation pass: bootstrapOVN, then renderOVNKubernetes        *)
(* ------------------------------------------------------------------ *)

\* renderOVNKubernetes on the snapshot the call has returned, for a cluster
\* without daemonsets (the three reads of the call found none)
RenderSnapshot ==
  /\ bpc = "idle"
  /\ bootstrapResult.kind = "snapshot"
  /\ op = "none"
  /\ IF externalControlPlaneError(bootstrapResult.ExternalControlPlane)
       THEN /\ op' = "renderOVNKubernetesError"
            /\ UNCHANGED <<decision, objs>>
       ELSE /\ op' = "renderOVNKubernetes"
            /\ decision' = renderDecision(NIL, NIL, NIL, releaseVersion, ipFamilyMode)
            /\ objs' = renderObjects(NIL, NIL, NIL, releaseVersion, ipFamilyMode)
  /\ UNCHANGED <<ds, allowHung, progressing, existingNode, existingMaster,
                 prePuller, releaseVersion, ipFamilyMode, ret>>
  /\ UNCHANGED bootVars
  /\ UNCHANGED clusterVars
  /\ UNCHANGED flowVars
  /\ UNCHANGED concVars
  /\ UNCHANGED changeVars

NextPass ==
  \/ BootstrapOVN
  \/ PollTick
  \/ PollTimeout
  \/ RenderSnapshot

SpecPass == Init /\ [][NextPass]_vars

(* ------------------------------------------------------------------ *)
(* Concurrent calls of bootstrapOVN on the process-wide deadline        *)
(* ------------------------------------------------------------------ *)

\* the guard of the shrink (the read of the deadline at line 621)
shrinkGuard(timeout) == timeout - OVN_MASTER_DISCOVERY_BACKOFF > 0

\* the assignment of the shrink (the read, subtract and write at line 622)
shrinkWrite(timeout) == timeout - OVN_MASTER_DISCOVERY_BACKOFF

\* a call starts its poll with the deadline it reads at line 596
ConcStart(c) ==
  /\ callPc[c] = "idle"
  /\ callPc' = [callPc EXCEPT ![c] = "polling"]
  /\ callTimeout' = [callTimeout EXCEPT ![c] = OVN_MASTER_DISCOVERY_TIMEOUT]
  /\ UNCHANGED OVN_MASTER_DISCOVERY_TIMEOUT

\* the poll of a call ends without wait.ErrWaitTimeout (the count is reached
\* or the listing fails) and the call returns
ConcReturn(c) ==
  /\ callPc[c] = "polling"
  /\ callPc' = [callPc EXCEPT ![c] = "idle"]
  /\ UNCHANGED <<callTimeout, OVN_MASTER_DISCOVERY_TIMEOUT>>

\* the poll of a call ends with wait.ErrWaitTimeout
ConcTimeout(c) ==
  /\ callPc[c] = "polling"
  /\ callPc' = [callPc EXCEPT ![c] = "timedOut"]
  /\ UNCHANGED <<callTimeout, OVN_MASTER_DISCOVERY_TIMEOUT>>

\* the call evaluates the guard on the deadline as it is now
ConcGuard(c) ==
  /\ callPc[c] = "timedOut"
  /\ callPc' = [callPc EXCEPT ![c] =
                  IF shrinkGuard(OVN_MASTER_DISCOVERY_TIMEOUT)
                    THEN "shrinking" ELSE "idle"]
  /\ UNCHANGED <<callTimeout, OVN_MASTER_DISCOVERY_TIMEOUT>>

\* the call that passed the guard shrinks the deadline as it is now, then
\* goes on to its end
ConcShrink(c) ==
  /\ callPc[c] = "shrinking"
  /\ OVN_MASTER_DISCOVERY_TIMEOUT' = shrinkWrite(OVN_MASTER_DISCOVERY_TIMEOUT)
  /\ callPc' = [callPc EXCEPT ![c] = "idle"]
  /\ UNCHANGED callTimeout

ConcStep(c) ==
  \/ ConcStart(c)
  \/ ConcReturn(c)
  \/ ConcTimeout(c)
  \/ ConcGuard(c)
  \/ ConcShrink(c)

NextConcurrent ==
  /\ \E c \in Calls : ConcStep(c)
  /\ UNCHANGED <<confAnnotations, bpc, controlPlaneReplicaCount, pollTimeout,
                 heartBeat, ticks, masterNodeList, bootstrapResult>>
  /\ UNCHANGED passVars
  /\ UNCHANGED clusterVars
  /\ UNCHANGED flowVars
  /\ UNCHANGED changeVars

SpecConcurrent == Init /\ [][NextConcurrent]_vars

(* ------------------------------------------------------------------ *)
(* Checks of a change of the configuration                              *)
(* ------------------------------------------------------------------ *)

\* isOVNKubernetesChangeSafe(prev, next) on a pair of specs
CallIsOVNKubernetesChangeSafe ==
  /\ op = "none"
  /\ \E prev \in PrevSpecs, next \in NextSpecs :
       /\ prevSpec' = prev
       /\ nextSpec' = next
       /\ changeErrors' = isOVNKubernetesChangeSafe(prev, next)
  /\ op' = "isOVNKubernetesChangeSafe"
  /\ UNCHANGED <<ds, allowHung, progressing, existingNode, existingMaster,
                 prePuller, releaseVersion, ipFamilyMode, ret, decision, objs>>
  /\ UNCHANGED bootVars
  /\ UNCHANGED clusterVars
  /\ UNCHANGED flowVars
  /\ UNCHANGED concVars

NextChange == CallIsOVNKubernetesChangeSafe

SpecChange == Init /\ [][NextChange]_vars

(* ------------------------------------------------------------------ *)
(* A cluster over its reconciliation passes                             *)
(* ------------------------------------------------------------------ *)

\* the releases an operator is built for
ClusterVersions == DOMAIN SemVer

\* a daemonset the applier has just created or changed: its rollout starts
rolloutStarted(version, family) ==
  DaemonSet(version, family, FALSE, PassNodes, 0, PassNodes, 0, 1, 1)

\* the daemonset called name after the objects of a pass are applied: the
\* existing one when it was returned or when the rendered one does not differ
\* from it in version and marker, else the rendered one, rolling out
applyObject(objects, name, current) ==
  LET i == CHOOSE i \in 1..Len(objects) :
             objects[i].kind = "DaemonSet" /\ objects[i].name = name
      new == objects[i].body[1]
  IN IF objects[i].body = current THEN current
     ELSE IF /\ current # NIL
             /\ current[1].version = new.version
             /\ current[1].ipFamilyMode = new.ipFamilyMode
       THEN current
     ELSE <<rolloutStarted(new.version, new.ipFamilyMode)>>

\* the object called name is among the objects of a pass
isRendered(objects, name) ==
  \E i \in 1..Len(objects) : objects[i].kind = "DaemonSet" /\ objects[i].name = name

\* one more pod of the daemonset runs the new template
podUpdated(d) ==
  [d EXCEPT !.UpdatedNumberScheduled = @ + 1, !.NumberUnavailable = @ - 1,
            !.NumberAvailable = @ + 1]

\* the cluster as found: both tiers at one version with one family marker,
\* their rollouts at any point, and the operator of some release and mode
ClusterStart ==
  /\ clNode = NIL /\ clMaster = NIL /\ op = "none"
  /\ \E v \in ClusterVersions, f \in FamilyMarkers :
       /\ clNode' \in TierPointers({v}, {f}) \ {NIL}
       /\ clMaster' \in TierPointers({v}, {f}) \ {NIL}
  /\ desiredVersion' \in ClusterVersions
  /\ desiredMode' \in {IPFamilySingleStack, IPFamilyDualStack}
  /\ UNCHANGED <<clPrePuller, overlap>>
  /\ UNCHANGED passVars
  /\ UNCHANGED bootVars
  /\ UNCHANGED flowVars
  /\ UNCHANGED concVars
  /\ UNCHANGED changeVars

\* a reconciliation pass: renderOVNKubernetes on the daemonsets of the
\* cluster, and its objects applied; nothing of a pass is kept but what it
\* leaves in the cluster
ClusterPass ==
  /\ clNode # NIL /\ clMaster # NIL
  /\ LET d == renderDecision(clNode, clMaster, clPrePuller, desiredVersion, desiredMode)
         o == renderObjects(clNode, clMaster, clPrePuller, desiredVersion, desiredMode)
     IN /\ clNode' = applyObject(o, "ovnkube-node", clNode)
        /\ clMaster' = applyObject(o, "ovnkube-master", clMaster)
        /\ IF isRendered(o, "ovnkube-upgrades-prepuller")
             THEN clPrePuller' = applyObject(o, "ovnkube-upgrades-prepuller", clPrePuller)
             ELSE clPrePuller' \in {clPrePuller, NIL}
        /\ overlap' = (\/ overlap
                       \/ /\ ~d.gate[1]
                          /\ compareVersions(clNode[1].version, desiredVersion) = versionUpgrade
                          /\ compareVersions(clMaster[1].version, desiredVersion) = versionUpgrade)
  /\ UNCHANGED <<desiredVersion, desiredMode>>
  /\ UNCHANGED passVars
  /\ UNCHANGED bootVars
  /\ UNCHANGED flowVars
  /\ UNCHANGED concVars
  /\ UNCHANGED changeVars

\* a rollout goes on by one pod
RolloutProgress ==
  /\ \/ /\ clNode # NIL
        /\ clNode[1].UpdatedNumberScheduled < clNode[1].DesiredNumberScheduled
        /\ clNode' = <<podUpdated(clNode[1])>>
        /\ UNCHANGED <<clMaster, clPrePuller>>
     \/ /\ clMaster # NIL
        /\ clMaster[1].UpdatedNumberScheduled < clMaster[1].DesiredNumberScheduled
        /\ clMaster' = <<podUpdated(clMaster[1])>>
        /\ UNCHANGED <<clNode, clPrePuller>>
     \/ /\ clPrePuller # NIL
        /\ clPrePuller[1].UpdatedNumberScheduled < clPrePuller[1].DesiredNumberScheduled
        /\ clPrePuller' = <<podUpdated(clPrePuller[1])>>
        /\ UNCHANGED <<clNode, clMaster>>
  /\ UNCHANGED <<desiredVersion, desiredMode, overlap>>
  /\ UNCHANGED passVars
  /\ UNCHANGED bootVars
  /\ UNCHANGED flowVars
  /\ UNCHANGED concVars
  /\ UNCHANGED changeVars

\* a rollout that does not go on is marked as hung
RolloutStall ==
  /\ \/ /\ clNode # NIL /\ ~clNode[1].hung
        /\ clNode[1].UpdatedNumberScheduled < clNode[1].DesiredNumberScheduled
        /\ clNode' = <<[clNode[1] EXCEPT !.hung = TRUE]>>
        /\ UNCHANGED <<clMaster, clPrePuller>>
     \/ /\ clMaster # NIL /\ ~clMaster[1].hung
        /\ clMaster[1].UpdatedNumberScheduled < clMaster[1].DesiredNumberScheduled
        /\ clMaster' = <<[clMaster[1] EXCEPT !.hung = TRUE]>>
        /\ UNCHANGED <<clNode, clPrePuller>>
     \/ /\ clPrePuller # NIL /\ ~clPrePuller[1].hung
        /\ clPrePuller[1].UpdatedNumberScheduled < clPrePuller[1].DesiredNumberScheduled
        /\ clPrePuller' = <<[clPrePuller[1] EXCEPT !.hung = TRUE]>>
        /\ UNCHANGED <<clNode, clMaster>>
  /\ UNCHANGED <<desiredVersion, desiredMode, overlap>>
  /\ UNCHANGED passVars
  /\ UNCHANGED bootVars
  /\ UNCHANGED flowVars
  /\ UNCHANGED concVars
  /\ UNCHANGED changeVars

\* an operator of another release takes over, once both tiers carry the
\* release of the one before
ChangeRelease ==
  /\ clNode # NIL /\ clMaster # NIL
  /\ clNode[1].version = desiredVersion
  /\ clMaster[1].version = desiredVersion
  /\ desiredVersion' \in ClusterVersions \ {desiredVersion}
  /\ UNCHANGED <<clNode, clMaster, clPrePuller, desiredMode, overlap>>
  /\ UNCHANGED passVars
  /\ UNCHANGED bootVars
  /\ UNCHANGED flowVars
  /\ UNCHANGED concVars
  /\ UNCHANGED changeVars

\* a service network is added to or taken from the configuration
ChangeMode ==
  /\ clNode # NIL /\ clMaster # NIL
  /\ desiredMode' = IF desiredMode = IPFamilySingleStack
                      THEN IPFamilyDualStack ELSE IPFamilySingleStack
  /\ UNCHANGED <<clNode, clMaster, clPrePuller, desiredVersion, overlap>>
  /\ UNCHANGED passVars
  /\ UNCHANGED bootVars
  /\ UNCHANGED flowVars
  /\ UNCHANGED concVars
  /\ UNCHANGED changeVars

NextCluster ==
  \/ ClusterStart
  \/ ClusterPass
  \/ RolloutProgress
  \/ RolloutStall
  \/ ChangeRelease
  \/ ChangeMode

SpecCluster == Init /\ [][NextCluster]_vars

(* ------------------------------------------------------------------ *)
(* A cluster under one operator: passes recur and rollouts complete     *)
(* ------------------------------------------------------------------ *)

\* the release and the mode of the operator: a release that tiers can be
\* older than, newer than and at, and one of the two modes (versions are only
\* compared for order, markers only for equality)
ConvergeRelease == "4.11.0"
ConvergeMode == IPFamilyDualStack

\* the daemonsets without hang marker: RolloutStall sets it
Unmarked(pointers) == {p \in pointers : p # NIL => ~p[1].hung}

\* the cluster as found by the operator: both tiers exist, each with any
\* version, family marker and rollout status, with or without a prepuller
InitConverge ==
  /\ InitPass /\ InitBootstrap /\ InitFlows /\ InitConcurrent /\ InitChange
  /\ clNode \in Unmarked(NodePointers) \ {NIL}
  /\ clMaster \in Unmarked(MasterPointers) \ {NIL}
  /\ clPrePuller \in Unmarked(PrePullerPointers)
  /\ desiredVersion = ConvergeRelease
  /\ desiredMode = ConvergeMode
  /\ overlap = FALSE

NextConverge ==
  \/ ClusterPass
  \/ RolloutProgress
  \/ RolloutStall

\* a pass made now changes the cluster: <<ClusterPass>>_vars is enabled
PassChanges ==
  /\ clNode # NIL /\ clMaster # NIL
  /\ LET d == renderDecision(clNode, clMaster, clPrePuller, desiredVersion, desiredMode)
         o == renderObjects(clNode, clMaster, clPrePuller, desiredVersion, desiredMode)
     IN \/ clNode # applyObject(o, "ovnkube-node", clNode)
        \/ clMaster # applyObject(o, "ovnkube-master", clMaster)
        \/ IF isRendered(o, "ovnkube-upgrades-prepuller")
             THEN clPrePuller # applyObject(o, "ovnkube-upgrades-prepuller", clPrePuller)
             ELSE clPrePuller # NIL
        \/ /\ ~overlap
           /\ ~d.gate[1]
           /\ compareVersions(clNode[1].version, desiredVersion) = versionUpgrade
           /\ compareVersions(clMaster[1].version, desiredVersion) = versionUpgrade

\* WF_vars(ClusterPass), its enabling condition written as a state predicate
PassesRecur == []<>(~PassChanges) \/ []<><<ClusterPass>>_vars

\* the work loop runs a pass again and again, and a daemonset that rolls out
\* gets its pods updated
SpecConverge ==
  /\ InitConverge
  /\ [][NextConverge]_vars
  /\ PassesRecur
  /\ WF_vars(RolloutProgress)

(* ------------------------------------------------------------------ *)
(* Properties of the decision engine                                    *)
(* ------------------------------------------------------------------ *)

BothTiersExist == existingNode # NIL /\ existingMaster # NIL

\* the version deltas of the tiers of the current state (both tiers exist)
NodeDelta == compareVersions(existingNode[1].version, releaseVersion)
MasterDelta == compareVersions(existingMaster[1].version, releaseVersion)

KnownDeltas == {versionUpgrade, versionSame, versionDowngrade}

IllegalCells ==
  {<<versionUpgrade, versionSame>>, <<versionUpgrade, versionDowngrade>>,
   <<versionSame, versionDowngrade>>, <<versionDowngrade, versionUpgrade>>}

\* C1: for existing tiers with known deltas, shouldUpdateOVNKonUpgrade returns
\* the cell of the ordering table: node Upgrade/master Upgrade (true,false);
\* node Same/master Upgrade (true,false) while the node rollout progresses
\* (hang tolerated), else (true,true); Same/Same (true,true); node
\* Downgrade/master Same (false,true) while the master rollout progresses
\* (hang not tolerated), else (true,true); Downgrade/Downgrade (false,true).
C1_OrderingTable ==
  (op = "shouldUpdateOVNKonUpgrade" /\ BothTiersExist
     /\ NodeDelta \in KnownDeltas /\ MasterDelta \in KnownDeltas) =>
    /\ (NodeDelta = versionUpgrade /\ MasterDelta = versionUpgrade)
         => ret = <<TRUE, FALSE>>
    /\ (NodeDelta = versionSame /\ MasterDelta = versionUpgrade)
         => ret = <<TRUE, ~daemonSetProgressing(existingNode[1], TRUE)>>
    /\ (NodeDelta = versionSame /\ MasterDelta = versionSame)
         => ret = <<TRUE, TRUE>>
    /\ (NodeDelta = versionDowngrade /\ MasterDelta = versionSame)
         => ret = <<~daemonSetProgressing(existingMaster[1], FALSE), TRUE>>
    /\ (NodeDelta = versionDowngrade /\ MasterDelta = versionDowngrade)
         => ret = <<FALSE, TRUE>>

\* the master is released after a node rollout that hung within the tolerance
C1_Witness ==
  /\ op = "shouldUpdateOVNKonUpgrade" /\ BothTiersExist
  /\ NodeDelta = versionSame /\ MasterDelta = versionUpgrade
  /\ existingNode[1].UpdatedNumberScheduled < existingNode[1].DesiredNumberScheduled
  /\ existingNode[1].hung
  /\ ret = <<TRUE, TRUE>>

\* the IP-family gate withholds the node tier in the current state
GateHoldsNode ==
  /\ BothTiersExist
  /\ existingNode[1].ipFamilyMode # "" /\ existingMaster[1].ipFamilyMode # ""
  /\ \/ existingMaster[1].ipFamilyMode # ipFamilyMode
     \/ /\ existingNode[1].ipFamilyMode # ipFamilyMode
        /\ daemonSetProgressing(existingMaster[1], FALSE)

UpgradePending ==
  /\ op = "renderOVNKubernetes" /\ BothTiersExist
  /\ MasterDelta = versionUpgrade
  /\ NodeDelta \in {versionUpgrade, versionSame}

NodeReachedRelease ==
  NodeDelta = versionSame /\ ~daemonSetProgressing(existingNode[1], TRUE)

\* C2 as stated: in every pass with both tiers, the master older than the
\* release and the node older or equal, updateMaster holds only if the node is
\* at the release and its rollout is not progressing (hang tolerated), whatever
\* the IP-family markers and the desired mode.
C2_MasterAfterNode_AnyFamily ==
  UpgradePending => (decision.updateMaster => NodeReachedRelease)

\* C2 amended: the same, in the passes where the IP-family gate does not
\* withhold the node tier.
C2_MasterAfterNode ==
  (UpgradePending /\ ~GateHoldsNode) =>
    (decision.updateMaster => NodeReachedRelease)

\* the master is released in a pass of an upgrade, the gate not holding the node
C2_Witness ==
  /\ UpgradePending /\ ~GateHoldsNode
  /\ existingNode[1].ipFamilyMode = ipFamilyMode
  /\ existingMaster[1].ipFamilyMode = ipFamilyMode
  /\ decision.updateMaster

DowngradePending ==
  /\ op = "renderOVNKubernetes" /\ BothTiersExist
  /\ NodeDelta = versionDowngrade
  /\ MasterDelta \in {versionDowngrade, versionSame}

\* C3: in every pass with both tiers, the node newer than the release and the
\* master newer or equal, updateNode holds only if the master is at the release
\* and its rollout is not progressing (hang not tolerated), whatever the
\* IP-family markers, the desired mode and the prepuller.
C3_NodeAfterMaster ==
  DowngradePending =>
    (decision.updateNode =>
       /\ MasterDelta = versionSame
       /\ ~daemonSetProgressing(existingMaster[1], FALSE))

\* the node is released in a pass of a downgrade
C3_Witness == DowngradePending /\ decision.updateNode

\* C4: shouldUpdateOVNKonUpgrade fails open: an Unknown delta of either tier,
\* or an illegal (node, master) cell, gives (true,true) whatever the progress
\* of the tiers.
C4_FailOpen ==
  (op = "shouldUpdateOVNKonUpgrade" /\ BothTiersExist
     /\ \/ NodeDelta = versionUnknown
        \/ MasterDelta = versionUnknown
        \/ <<NodeDelta, MasterDelta>> \in IllegalCells) =>
    ret = <<TRUE, TRUE>>

\* an illegal cell with both rollouts still progressing
C4_Witness ==
  /\ op = "shouldUpdateOVNKonUpgrade" /\ BothTiersExist
  /\ <<NodeDelta, MasterDelta>> = <<versionDowngrade, versionUpgrade>>
  /\ daemonSetProgressing(existingNode[1], TRUE)
  /\ daemonSetProgressing(existingMaster[1], FALSE)
  /\ ret = <<TRUE, TRUE>>

\* C5: shouldUpdateOVNKonIPFamilyChange, by cases in order: a tier absent or a
\* family marker empty (true,true); both markers equal to the desired mode
\* (true,true); the master marker differs (false,true); the master marker
\* equal, the node marker different and the master rollout progressing (hang
\* not tolerated) (false,true); the same with the master settled (true,true).
C5_FamilyGate ==
  (op = "shouldUpdateOVNKonIPFamilyChange") =>
    IF ~BothTiersExist THEN ret = <<TRUE, TRUE>>
    ELSE LET nodeMode == existingNode[1].ipFamilyMode
             masterMode == existingMaster[1].ipFamilyMode
         IN /\ (nodeMode = "" \/ masterMode = "") => ret = <<TRUE, TRUE>>
            /\ (nodeMode = ipFamilyMode /\ masterMode = ipFamilyMode)
                 => ret = <<TRUE, TRUE>>
            /\ (nodeMode # "" /\ masterMode # "" /\ masterMode # ipFamilyMode)
                 => ret = <<FALSE, TRUE>>
            /\ (nodeMode # "" /\ masterMode = ipFamilyMode /\ nodeMode # ipFamilyMode
                  /\ daemonSetProgressing(existingMaster[1], FALSE))
                 => ret = <<FALSE, TRUE>>
            /\ (nodeMode # "" /\ masterMode = ipFamilyMode /\ nodeMode # ipFamilyMode
                  /\ ~daemonSetProgressing(existingMaster[1], FALSE))
                 => ret = <<TRUE, TRUE>>

\* the node is withheld behind a converted master whose rollout hung
C5_Witness ==
  /\ op = "shouldUpdateOVNKonIPFamilyChange" /\ BothTiersExist
  /\ existingMaster[1].ipFamilyMode = ipFamilyMode
  /\ existingNode[1].ipFamilyMode \notin {"", ipFamilyMode}
  /\ existingMaster[1].hung
  /\ ~daemonSetProgressing(existingMaster[1], TRUE)
  /\ ret = <<FALSE, TRUE>>

\* both tiers carry a family marker and one of them is not the desired mode
ConversionInFlight ==
  /\ BothTiersExist
  /\ existingNode[1].ipFamilyMode # "" /\ existingMaster[1].ipFamilyMode # ""
  /\ \/ existingNode[1].ipFamilyMode # ipFamilyMode
     \/ existingMaster[1].ipFamilyMode # ipFamilyMode

\* C6: in every pass with an IP-family conversion in flight the gate's result
\* is the (updateNode, updateMaster) handed to the prepull stager and
\* shouldUpdateOVNKonUpgrade is not consulted.
C6_GateSupersedesSequencer ==
  (op = "renderOVNKubernetes" /\ ConversionInFlight) =>
    /\ ~decision.upgradeConsulted
    /\ decision.versioned = decision.gate

\* C7: shouldUpdateOVNKonPrepull, by cases in order: no node tier (true,false);
\* the node tier at the release (true,false); no prepuller (false,true); the
\* prepuller at another version (false,true); the prepuller at the release and
\* progressing (hang tolerated): node update not permitted; otherwise
\* (true,false).
C7_PrepullStager ==
  (op = "shouldUpdateOVNKonPrepull") =>
    IF existingNode = NIL THEN ret = <<TRUE, FALSE>>
    ELSE IF existingNode[1].version = releaseVersion THEN ret = <<TRUE, FALSE>>
    ELSE IF prePuller = NIL THEN ret = <<FALSE, TRUE>>
    ELSE IF prePuller[1].version # releaseVersion THEN ret = <<FALSE, TRUE>>
    ELSE IF daemonSetProgressing(prePuller[1], TRUE) THEN ret[1] = FALSE
    ELSE ret = <<TRUE, FALSE>>

\* a finished prepuller of another version than the release
C7_Witness ==
  /\ op = "shouldUpdateOVNKonPrepull"
  /\ existingNode # NIL /\ existingNode[1].version # releaseVersion
  /\ prePuller # NIL /\ prePuller[1].version # releaseVersion
  /\ ~daemonSetProgressing(prePuller[1], TRUE)
  /\ ret = <<FALSE, TRUE>>

\* C8: daemonSetProgressing is false when the base condition (updated <
\* desired, or unavailable > 0, or available = 0, or generation > observed
\* generation) is false; when it is true the result is false only if allowHung
\* is set, the hang marker is present and desired - updated <=
\* max(1, floor(desired/10)).  So desired 10, updated 9, marker, allowHung is
\* complete, updated 8 is progressing, and without allowHung the marker does
\* not count.
C8_ProgressEvaluator ==
  (op = "daemonSetProgressing") =>
    LET d == ds.DesiredNumberScheduled
        u == ds.UpdatedNumberScheduled
        base == \/ u < d
                \/ ds.NumberUnavailable > 0
                \/ ds.NumberAvailable = 0
                \/ ds.Generation > ds.ObservedGeneration
        tolerated == allowHung /\ ds.hung /\ d - u <= Max(1, d \div 10)
    IN /\ progressing = (base /\ ~tolerated)
       /\ (~allowHung => progressing = base)
       /\ (d = 10 /\ u = 9 /\ ds.hung /\ allowHung) => ~progressing
       /\ (d = 10 /\ u = 8 /\ ds.hung /\ allowHung) => progressing

\* a rollout hung with one pod of ten behind is taken as complete
C8_Witness ==
  /\ op = "daemonSetProgressing"
  /\ ds.DesiredNumberScheduled = 10 /\ ds.UpdatedNumberScheduled = 9
  /\ ds.hung /\ allowHung
  /\ ~progressing

\* a pass on two existing tiers, both older than the release, no IP-family
\* conversion in flight
BothOlderNoConversion ==
  /\ op = "renderOVNKubernetes" /\ BothTiersExist
  /\ NodeDelta = versionUpgrade /\ MasterDelta = versionUpgrade
  /\ ~ConversionInFlight

\* the prepuller carries the release and its rollout is over (hang tolerated)
PrepullDone ==
  /\ prePuller # NIL
  /\ prePuller[1].version = releaseVersion
  /\ ~daemonSetProgressing(prePuller[1], TRUE)

\* C15 as stated: a full pass on two existing tiers that are both older than
\* the release, without an IP-family change pending, decides updateNode=true
\* and updateMaster=false.
C15_BothOlder_NodeFirst ==
  BothOlderNoConversion => (decision.updateNode /\ ~decision.updateMaster)

\* C15 amended: such a pass decides updateMaster=false; it decides
\* updateNode=true only when the prepuller exists, carries the release and its
\* rollout is over (hang tolerated), and otherwise updateNode=false with
\* renderPrepull=true.
C15_BothOlder_PrepullFirst ==
  BothOlderNoConversion =>
    /\ ~decision.updateMaster
    /\ decision.updateNode = PrepullDone
    /\ decision.renderPrePull = ~PrepullDone

\* both tiers at 4.10.0, release 4.11.0, no prepuller yet: the node waits
C15_Witness ==
  /\ BothOlderNoConversion
  /\ existingNode[1].version = "4.10.0" /\ existingMaster[1].version = "4.10.0"
  /\ releaseVersion = "4.11.0"
  /\ prePuller = NIL
  /\ ~decision.updateNode /\ ~decision.updateMaster /\ decision.renderPrePull

\* C16: shouldUpdateOVNKonUpgrade and shouldUpdateOVNKonIPFamilyChange return
\* (true,true) whenever a tier is absent, whatever the versions, the family
\* markers and the progress of the other tier; and a full pass without node
\* tier and without master tier decides updateNode=true, updateMaster=true,
\* renderPrepull=false whatever the release, the desired mode and the
\* prepuller.
C16_FreshCluster ==
  /\ (/\ op \in {"shouldUpdateOVNKonUpgrade", "shouldUpdateOVNKonIPFamilyChange"}
      /\ ~BothTiersExist)
       => ret = <<TRUE, TRUE>>
  /\ (op = "renderOVNKubernetes" /\ existingNode = NIL /\ existingMaster = NIL)
       => /\ decision.updateNode
          /\ decision.updateMaster
          /\ ~decision.renderPrePull

\* a pass without tiers that finds a prepuller of another version, rolling out
C16_Witness ==
  /\ op = "renderOVNKubernetes" /\ existingNode = NIL /\ existingMaster = NIL
  /\ prePuller # NIL /\ prePuller[1].version = "4.10.0"
  /\ daemonSetProgressing(prePuller[1], TRUE)
  /\ releaseVersion = "4.11.0" /\ ipFamilyMode = IPFamilyDualStack
  /\ decision.updateNode /\ decision.updateMaster /\ ~decision.renderPrePull

\* the positions of the daemonset called name in the returned objects
Named(name) ==
  {i \in 1..Len(objs) : objs[i].kind = "DaemonSet" /\ objs[i].name = name}

\* C17: in the objects a pass returns, a tier whose update is withheld is the
\* daemonset that existed before the pass, so its version annotation and its
\* IP-family marker are the deployed ones (the rendered daemonset and the
\* marker set on it are dropped), while a tier that is updated is the rendered
\* daemonset with the release and the mode of the pass; and without
\* renderPrepull the objects hold no prepuller daemonset.
C17_DecisionApplied ==
  (op = "renderOVNKubernetes") =>
    /\ Cardinality(Named("ovnkube-master")) = 1
    /\ Cardinality(Named("ovnkube-node")) = 1
    /\ \A i \in Named("ovnkube-master") :
         IF decision.updateMaster
           THEN /\ objs[i].body[1].version = releaseVersion
                /\ objs[i].body[1].ipFamilyMode = ipFamilyMode
           ELSE existingMaster # NIL /\ objs[i].body = existingMaster
    /\ \A i \in Named("ovnkube-node") :
         IF decision.updateNode
           THEN /\ objs[i].body[1].version = releaseVersion
                /\ objs[i].body[1].ipFamilyMode = ipFamilyMode
           ELSE existingNode # NIL /\ objs[i].body = existingNode
    /\ decision.renderPrePull = (Named("ovnkube-upgrades-prepuller") # {})

\* the node tier withheld at an older version and with the other family
\* marker: the deployed daemonset is returned, and no prepuller
C17_Witness ==
  /\ op = "renderOVNKubernetes" /\ BothTiersExist
  /\ ~decision.updateNode /\ decision.updateMaster /\ ~decision.renderPrePull
  /\ existingNode[1].version = "4.10.0" /\ releaseVersion = "4.11.0"
  /\ existingNode[1].ipFamilyMode = IPFamilySingleStack
  /\ ipFamilyMode = IPFamilyDualStack
  /\ \E i \in Named("ovnkube-node") :
       /\ objs[i].body[1].version = "4.10.0"
       /\ objs[i].body[1].ipFamilyMode = IPFamilySingleStack
  /\ Named("ovnkube-upgrades-prepuller") = {}

\* the tiers of the cluster are in an illegal cell of the ordering table for
\* the release of the operator: this is what a pass made now finds
IllegalCellObserved ==
  /\ clNode # NIL /\ clMaster # NIL
  /\ <<compareVersions(clNode[1].version, desiredVersion),
       compareVersions(clMaster[1].version, desiredVersion)>> \in IllegalCells

\* C18 as stated: from two tiers at one version with one family marker, over
\* passes where the release changes only after both tiers carry the release
\* before, the desired mode changing at any time and the rollouts going on or
\* stalling in any order, no pass finds the tiers in an illegal cell.
C18_NoIllegalCell == ~IllegalCellObserved

\* C18 amended: the same, as long as no pass has had the IP-family gate
\* withhold the node tier (and so update the master tier, the sequencer not
\* consulted) while both tiers were older than the release.
C18_NoIllegalCell_NoOverlap == ~overlap => ~IllegalCellObserved

\* an upgrade in its legal order after a conversion that did not run ahead
\* of it: the prepuller done, the node tier rolling out the release, the
\* master tier still at the older version
C18_Witness ==
  /\ clNode # NIL /\ clMaster # NIL /\ clPrePuller # NIL /\ ~overlap
  /\ desiredVersion = "4.11.0" /\ desiredMode = IPFamilyDualStack
  /\ clNode[1].version = "4.11.0" /\ clNode[1].ipFamilyMode = IPFamilyDualStack
  /\ clNode[1].UpdatedNumberScheduled < clNode[1].DesiredNumberScheduled
  /\ clMaster[1].version = "4.10.0" /\ clMaster[1].ipFamilyMode = IPFamilyDualStack
  /\ clPrePuller[1].version = "4.11.0"

\* the durations that are well formed, with their whole seconds
WellFormedDurations ==
  { <<<<"3", "0", "s">>, 30>>, <<<<"1", "5", "0", "0", "m", "s">>, 1>>,
    <<<<"1", "m", "3", "0", "s">>, 90>>, <<<<"0">>, 0>> }

\* the unsigned numbers that are well formed, with their values
WellFormedUints == { <<<<"1", "0", "0">>, 100>>, <<<<"0", "7">>, 7>> }

\* a field is set, to the value of its well-formed text, or it is unset
FieldFollows(entry, field, wellFormed) ==
  IF entry # NIL /\ \E w \in wellFormed : w[1] = entry[1]
    THEN \E w \in wellFormed : w[1] = entry[1] /\ field = <<w[2]>>
    ELSE field = NIL

\* C20: bootstrapFlowsConfig has no error to return and no content of the map
\* stops it: without the map (not found or not readable), or with a map that
\* has neither sharedTarget nor nodePort, there is no flows configuration;
\* otherwise there is one, its target is sharedTarget, or ":" and nodePort
\* without sharedTarget, and each of cacheActiveTimeout, cacheMaxFlows and
\* sampling is set from its own value when that is well formed and unset when
\* it is absent or does not parse, whatever the other values are.
C20_FlowsConfigTolerant ==
  (op = "bootstrapFlowsConfig") =>
    IF cmFetch # "ok" \/ (cmData.sharedTarget = NIL /\ cmData.nodePort = NIL)
      THEN flowsConfig = NIL
      ELSE /\ flowsConfig # NIL
           /\ flowsConfig[1].Target =
                IF cmData.sharedTarget # NIL THEN <<cmData.sharedTarget[1]>>
                ELSE <<":", cmData.nodePort[1]>>
           /\ FieldFollows(cmData.cacheActiveTimeout,
                           flowsConfig[1].CacheActiveTimeout, WellFormedDurations)
           /\ FieldFollows(cmData.cacheMaxFlows,
                           flowsConfig[1].CacheMaxFlows, WellFormedUints)
           /\ FieldFollows(cmData.sampling, flowsConfig[1].Sampling, WellFormedUints)

\* a duration without unit and a sampling above 32 bits leave their fields
\* unset; the target and cacheMaxFlows are set
C20_Witness ==
  /\ op = "bootstrapFlowsConfig" /\ cmFetch = "ok"
  /\ cmData.sharedTarget = NIL /\ cmData.nodePort = <<"30000">>
  /\ cmData.cacheActiveTimeout = << <<"6", "0">> >>
  /\ cmData.cacheMaxFlows = << <<"1", "0", "0">> >>
  /\ cmData.sampling = << <<"4", "2", "9", "4", "9", "6", "7", "2", "9", "6">> >>
  /\ flowsConfig # NIL
  /\ flowsConfig[1].Target = <<":", "30000">>
  /\ flowsConfig[1].CacheActiveTimeout = NIL
  /\ flowsConfig[1].CacheMaxFlows = <<100>>
  /\ flowsConfig[1].Sampling = NIL

\* the pass ran on two existing tiers that carry family markers, and the
\* marker of the node tier is not the mode of the pass
NodeToConvert ==
  /\ op = "renderOVNKubernetes"
  /\ BothTiersExist
  /\ existingNode[1].ipFamilyMode # "" /\ existingMaster[1].ipFamilyMode # ""
  /\ existingNode[1].ipFamilyMode # ipFamilyMode

\* the master tier carries the mode of the pass and its rollout is over,
\* a hung rollout not counting as over
MasterConvertedAndSettled ==
  /\ existingMaster[1].ipFamilyMode = ipFamilyMode
  /\ ~daemonSetProgressing(existingMaster[1], FALSE)

\* C22: a pass on two tiers with family markers, the node tier's not being
\* the desired mode, updates the node tier only if the master tier carries
\* the desired mode and daemonSetProgressing(master, false) is false, whatever
\* the versions and the prepuller are.
C22_NodeConvertsAfterMaster ==
  (NodeToConvert /\ decision.updateNode) => MasterConvertedAndSettled

\* a node tier that is converted after the master, with an upgrade pending
\* on both tiers and a prepuller that has done its work
C22_Witness ==
  /\ NodeToConvert /\ decision.updateNode
  /\ MasterConvertedAndSettled
  /\ existingNode[1].version # releaseVersion
  /\ prePuller # NIL

\* the pass ran on a node tier that exists and carries another version than
\* the release
NodeAtOtherVersion ==
  /\ op = "renderOVNKubernetes"
  /\ existingNode # NIL
  /\ existingNode[1].version # releaseVersion

\* C23: whatever the gate and the sequencer decided, the decision of a pass
\* on a node tier that exists with another version than the release has
\* updateNode true only if a prepuller exists, carries the release and
\* daemonSetProgressing(prepuller, true) is false.
C23_NodeAfterPrepull ==
  (NodeAtOtherVersion /\ decision.updateNode) => PrepullDone

\* a downgrade of the node tier after the master, let through by a prepuller
\* whose rollout hangs within tolerance
C23_Witness ==
  /\ NodeAtOtherVersion /\ decision.updateNode
  /\ existingMaster # NIL
  /\ NodeDelta = versionDowngrade
  /\ prePuller[1].hung
  /\ baseProgressing(prePuller[1])

\* C27: no pass decides nothing: the decision of renderOVNKubernetes has one
\* of updateNode, updateMaster, renderPrepull true for every pair of tiers,
\* prepuller, release and mode; the gate and the sequencer never return
\* (false,false), in a pass or called alone, and a node update that the
\* stager withholds comes with renderPrepull=true.
C27_NoEmptyDecision ==
  /\ (op = "renderOVNKubernetes") =>
       /\ decision.updateNode \/ decision.updateMaster \/ decision.renderPrePull
       /\ decision.gate # <<FALSE, FALSE>>
       /\ decision.versioned # <<FALSE, FALSE>>
       /\ (decision.prepullConsulted /\ ~decision.updateNode)
            => decision.renderPrePull
  /\ (op \in {"shouldUpdateOVNKonIPFamilyChange", "shouldUpdateOVNKonUpgrade"})
       => ret # <<FALSE, FALSE>>
  /\ (op = "shouldUpdateOVNKonPrepull" /\ ~ret[1]) => ret[2]

\* the sequencer withholds the master and the stager withholds the node while
\* a prepuller of the release rolls out: the prepuller is all the pass renders
C27_Witness ==
  /\ op = "renderOVNKubernetes" /\ BothTiersExist
  /\ decision.versioned = <<TRUE, FALSE>>
  /\ prePuller # NIL /\ prePuller[1].version = releaseVersion
  /\ daemonSetProgressing(prePuller[1], TRUE)
  /\ ~decision.updateNode /\ ~decision.updateMaster /\ decision.renderPrePull

\* C28: in every decision of renderOVNKubernetes updateNode and renderPrepull
\* are not both true; renderPrepull is true only if the gate and the sequencer
\* permitted the node update, the node tier exists and its version is not the
\* release; so a pass in which the gate or the sequencer withheld the node
\* tier has renderPrepull false.
C28_PrepullOnlyForPermittedNode ==
  (op = "renderOVNKubernetes") =>
    /\ ~(decision.updateNode /\ decision.renderPrePull)
    /\ decision.renderPrePull =>
         /\ decision.gate[1] /\ decision.versioned[1]
         /\ existingNode # NIL
         /\ existingNode[1].version # releaseVersion
    /\ (~decision.gate[1] \/ ~decision.versioned[1]) => ~decision.renderPrePull

\* the sequencer withholds a node tier that is newer than the release until
\* the master is downgraded: no prepuller is rendered, though none exists
C28_Witness ==
  /\ op = "renderOVNKubernetes" /\ BothTiersExist
  /\ decision.gate = <<TRUE, TRUE>> /\ decision.versioned = <<FALSE, TRUE>>
  /\ existingNode[1].version # releaseVersion
  /\ prePuller = NIL
  /\ ~decision.updateNode /\ ~decision.renderPrePull

\* C29: a tier is withheld only if it exists: in every decision of
\* renderOVNKubernetes updateMaster=false implies that the existing master
\* daemonset is present and updateNode=false that the existing node daemonset
\* is present, so the daemonset put in place of the rendered one is never nil.
C29_WithheldTierExists ==
  (op = "renderOVNKubernetes") =>
    /\ ~decision.updateMaster => existingMaster # NIL
    /\ ~decision.updateNode => existingNode # NIL
    /\ \A i \in Named("ovnkube-master") \cup Named("ovnkube-node") :
         objs[i].body # NIL

\* a pass without node tier on a master that rolls out: both are rendered
C29_Witness ==
  /\ op = "renderOVNKubernetes"
  /\ existingNode = NIL /\ existingMaster # NIL
  /\ daemonSetProgressing(existingMaster[1], TRUE)
  /\ existingMaster[1].version # releaseVersion
  /\ decision.updateNode /\ decision.updateMaster
  /\ \A i \in Named("ovnkube-node") : objs[i].body[1].version = releaseVersion

\* both tiers of the cluster carry the release and the mode of the operator
\* and a pass made now decides updateNode, updateMaster and no prepull
Converged ==
  /\ clNode # NIL /\ clMaster # NIL
  /\ clNode[1].version = desiredVersion /\ clMaster[1].version = desiredVersion
  /\ clNode[1].ipFamilyMode = desiredMode /\ clMaster[1].ipFamilyMode = desiredMode
  /\ LET d == renderDecision(clNode, clMaster, clPrePuller, desiredVersion, desiredMode)
     IN d.updateNode /\ d.updateMaster /\ ~d.renderPrePull

\* C26: from any state in which both tiers exist, with the release and the
\* mode fixed, passes recurring and rollouts going on until they are
\* complete, the cluster reaches a state from which on both tiers carry the
\* release and the desired family marker and every pass decides
\* updateNode=true, updateMaster=true, renderPrepull=false.
C26_Convergence ==
  <>[]Converged

\* a cluster that has converged after a pass converted the master tier
\* while both tiers were older than the release
C26_Witness ==
  /\ Converged
  /\ overlap
  /\ ~daemonSetProgressing(clNode[1], FALSE)
  /\ ~daemonSetProgressing(clMaster[1], FALSE)

(* ------------------------------------------------------------------ *)
(* Properties of the bootstrap                                          *)
(* ------------------------------------------------------------------ *)

\* the step ends a call whose poll ended with wait.ErrWaitTimeout
TimeoutStep == bpc = "polling" /\ bpc' # "polling" /\ bootstrapResult'.timedOut

\* C9: over the calls of bootstrapOVN, one after the other, the discovery
\* deadline starts at 250, a call whose poll times out takes exactly 120 off
\* it when the rest is positive, and nothing else changes it: its values are
\* 250, 130 and 10, it is positive and it never grows.
C9_AdaptiveDeadline ==
  /\ OVN_MASTER_DISCOVERY_TIMEOUT = 250
  /\ [](OVN_MASTER_DISCOVERY_TIMEOUT \in {250, 130, 10} /\ OVN_MASTER_DISCOVERY_TIMEOUT > 0)
  /\ [][/\ OVN_MASTER_DISCOVERY_TIMEOUT' <= OVN_MASTER_DISCOVERY_TIMEOUT
        /\ (TimeoutStep /\ OVN_MASTER_DISCOVERY_TIMEOUT - 120 > 0)
             => OVN_MASTER_DISCOVERY_TIMEOUT' = OVN_MASTER_DISCOVERY_TIMEOUT - 120
        /\ ~(TimeoutStep /\ OVN_MASTER_DISCOVERY_TIMEOUT - 120 > 0)
             => OVN_MASTER_DISCOVERY_TIMEOUT' = OVN_MASTER_DISCOVERY_TIMEOUT]_vars

\* a call whose poll timed out with the deadline at 10 has left it at 10
C9_Witness ==
  /\ bpc = "idle" /\ bootstrapResult.timedOut
  /\ pollTimeout = 10
  /\ OVN_MASTER_DISCOVERY_TIMEOUT = 10

\* C10: after a poll that ended by timeout the call does not fail, whatever
\* the number of members of the last listing: there is no crash, no error but
\* one of the later steps (a member without internal address, a failed read),
\* and a snapshot holds one address per member of the last listing.
C10_TimeoutProceeds ==
  (bpc # "polling" /\ bootstrapResult.timedOut) =>
    /\ bootstrapResult.kind \in {"snapshot", "error"}
    /\ bootstrapResult.kind = "error" =>
         bootstrapResult.cause \in {"noInternalIP", "daemonSetError", "infraError"}
    /\ bootstrapResult.kind = "snapshot" =>
         Len(bootstrapResult.MasterIPs) = Len(masterNodeList)

\* the addresses of the members of a listing
PassMembers(items) == {internalIP(items[i].addresses) : i \in 1..Len(items)}

\* the step ends a call that has elected (or kept) an initiator
ElectionStep ==
  \/ bootstrapResult'.kind = "snapshot"
  \/ bootstrapResult'.cause \in {"daemonSetError", "infraError"}

HasInitiator == OVNRaftClusterInitiator \in DOMAIN confAnnotations

\* C11: over the calls of bootstrapOVN on one configuration object, once the
\* initiator annotation is set it stays set; a call that returns a snapshot
\* whose members include the persisted address elects that address (smallest
\* or not) and leaves the annotations as they are; and the annotation changes
\* only in a call that reached the election with a member list that does not
\* hold the persisted address.
C11_InitiatorReused ==
  [][HasInitiator =>
       /\ OVNRaftClusterInitiator \in DOMAIN confAnnotations'
       /\ (/\ bootstrapResult'.kind = "snapshot"
           /\ confAnnotations[OVNRaftClusterInitiator] \in PassMembers(masterNodeList'))
            => /\ bootstrapResult'.ClusterInitiator = confAnnotations[OVNRaftClusterInitiator]
               /\ confAnnotations' = confAnnotations
       /\ (confAnnotations'[OVNRaftClusterInitiator] # confAnnotations[OVNRaftClusterInitiator])
            => /\ ElectionStep
               /\ confAnnotations[OVNRaftClusterInitiator] \notin PassMembers(masterNodeList')]_vars

\* a snapshot whose initiator is the persisted one and not its smallest member
C11_Witness ==
  /\ bootstrapResult.kind = "snapshot"
  /\ HasInitiator
  /\ bootstrapResult.ClusterInitiator = confAnnotations[OVNRaftClusterInitiator]
  /\ bootstrapResult.ClusterInitiator # bootstrapResult.MasterIPs[1]
  /\ LexLess(bootstrapResult.MasterIPs[1], bootstrapResult.ClusterInitiator)

\* C12: a call of bootstrapOVN that reaches the election with the initiator
\* annotation absent, or naming an address that is not a member of its
\* listing, sets the annotation to the smallest member address in string
\* order ("10" before "2"), returns that address as the initiator of its
\* snapshot, and keeps every other annotation.
C12_ElectSmallest ==
  [][(/\ ElectionStep
      /\ \/ ~HasInitiator
         \/ confAnnotations[OVNRaftClusterInitiator] \notin PassMembers(masterNodeList'))
       => /\ DOMAIN confAnnotations' = DOMAIN confAnnotations \cup {OVNRaftClusterInitiator}
          /\ confAnnotations'[OVNRaftClusterInitiator] \in PassMembers(masterNodeList')
          /\ \A a \in PassMembers(masterNodeList') :
               ~LexLess(a, confAnnotations'[OVNRaftClusterInitiator])
          /\ bootstrapResult'.kind = "snapshot"
               => bootstrapResult'.ClusterInitiator = confAnnotations'[OVNRaftClusterInitiator]
          /\ \A k \in DOMAIN confAnnotations \ {OVNRaftClusterInitiator} :
               confAnnotations'[k] = confAnnotations[k]]_vars

\* the address 10 elected before the address 2 of the same snapshot
C12_Witness ==
  /\ bootstrapResult.kind = "snapshot"
  /\ bootstrapResult.MasterIPs = <<Address(<<1, 0>>), Address(<<2>>)>>
  /\ bootstrapResult.ClusterInitiator = Address(<<1, 0>>)
  /\ confAnnotations[OVNRaftClusterInitiator] = Address(<<1, 0>>)
  /\ confAnnotations["owner"] = "cluster"

\* C13 as stated: bootstrapOVN refuses a cluster whose control plane is
\* external: no call returns a snapshot that carries the flag (it returns an
\* error before the poll and the election).
C13_BootstrapRefusesExternal ==
  ~(bootstrapResult.kind = "snapshot" /\ bootstrapResult.ExternalControlPlane)

\* C13 amended: bootstrapOVN does not examine the topology flag: a call whose
\* last read finds it set has run the discovery poll and the election as any
\* other call and returns a snapshot with members, the persisted initiator and
\* the flag; renderOVNKubernetes returns the error, on exactly the snapshots
\* that carry the flag, and takes no decision then.
C13_RenderRefusesExternal ==
  /\ (bootstrapResult.kind = "snapshot" /\ bootstrapResult.ExternalControlPlane)
       => /\ bootstrapResult.MasterIPs # <<>>
          /\ HasInitiator
          /\ bootstrapResult.ClusterInitiator = confAnnotations[OVNRaftClusterInitiator]
  /\ op = "renderOVNKubernetesError"
       => bootstrapResult.kind = "snapshot" /\ bootstrapResult.ExternalControlPlane
  /\ op = "renderOVNKubernetes"
       => bootstrapResult.kind = "snapshot" /\ ~bootstrapResult.ExternalControlPlane

\* the error of renderOVNKubernetes after a call that polled up to its
\* deadline and elected an initiator
C13_Witness ==
  /\ op = "renderOVNKubernetesError"
  /\ bootstrapResult.ExternalControlPlane
  /\ bootstrapResult.timedOut
  /\ bootstrapResult.ClusterInitiator = bootstrapResult.MasterIPs[1]

\* the step is a run of the poll condition whose listing succeeded
ListingStep ==
  bootstrapResult'.cause \notin (ConfigOutcomes \cup {"listError"})

\* the listing of the step has as many members as the install-config asks for
CountReached == Len(masterNodeList') = controlPlaneReplicaCount'

\* the step ends the poll without wait.ErrWaitTimeout and the deadline is kept
PollSucceeds ==
  /\ bpc' # "polling"
  /\ ~bootstrapResult'.timedOut
  /\ bootstrapResult'.kind \in {"snapshot", "error"}
  /\ OVN_MASTER_DISCOVERY_TIMEOUT' = OVN_MASTER_DISCOVERY_TIMEOUT

\* C14 as stated: the first listing is made at once, and for every desired
\* replica count, 0 included, the first listing with that many members ends
\* the poll successfully and the deadline is not shrunk.
C14_PollEndsOnCount_AnyCount ==
  [][ListingStep =>
       /\ bpc = "idle" => ticks' = 0
       /\ CountReached => PollSucceeds]_vars

\* C14 amended: the same for the positive replica counts; with the count 0
\* (replicas "0", absent or not a number) no listing ends the poll
\* successfully, an empty one included: the poll ends by timeout only.
C14_PollEndsOnCount ==
  [][ListingStep =>
       /\ bpc = "idle" => ticks' = 0
       /\ (CountReached /\ controlPlaneReplicaCount' > 0) => PollSucceeds
       /\ (controlPlaneReplicaCount' = 0 /\ bpc' # "polling")
            => bootstrapResult'.timedOut]_vars

\* three of three members found, the deadline still at its initial value
C14_Witness ==
  /\ bpc = "idle"
  /\ bootstrapResult.kind = "snapshot" /\ ~bootstrapResult.timedOut
  /\ controlPlaneReplicaCount = 3
  /\ Len(bootstrapResult.MasterIPs) = 3
  /\ pollTimeout = InitialDiscoveryTimeout
  /\ OVN_MASTER_DISCOVERY_TIMEOUT = InitialDiscoveryTimeout

\* a is the address of the first entry of type InternalIP of the node
IsFirstInternalIP(node, a) ==
  \E k \in 1..Len(node.addresses) :
    /\ node.addresses[k].type = "InternalIP"
    /\ node.addresses[k].address = a
    /\ \A j \in 1..(k - 1) : node.addresses[j].type # "InternalIP"

\* the node has no entry of type InternalIP with an address
NoInternalIP(node) ==
  \A k \in 1..Len(node.addresses) :
    node.addresses[k].type = "InternalIP" => node.addresses[k].address = <<>>

\* the last call has gone past its poll with the listing masterNodeList
PollEnded ==
  /\ bpc # "polling"
  /\ bootstrapResult.kind # "none"
  /\ bootstrapResult.cause \notin (ConfigOutcomes \cup {"listError"})

\* C19: the member list of a snapshot has one address for each node of the
\* listing the poll ended with, the address of the node's first InternalIP
\* entry, and it is in ascending string order; and a call whose listing holds
\* a node without any non-empty InternalIP address returns an error, no
\* snapshot.
C19_MemberAddresses ==
  /\ bootstrapResult.kind = "snapshot" =>
       /\ Len(bootstrapResult.MasterIPs) = Len(masterNodeList)
       /\ \A i \in 1..Len(masterNodeList) :
            \E j \in 1..Len(bootstrapResult.MasterIPs) :
              IsFirstInternalIP(masterNodeList[i], bootstrapResult.MasterIPs[j])
       /\ \A j \in 1..Len(bootstrapResult.MasterIPs) :
            \E i \in 1..Len(masterNodeList) :
              IsFirstInternalIP(masterNodeList[i], bootstrapResult.MasterIPs[j])
       /\ \A i, j \in 1..Len(bootstrapResult.MasterIPs) :
            i < j => ~LexLess(bootstrapResult.MasterIPs[j], bootstrapResult.MasterIPs[i])
  /\ (PollEnded /\ \E i \in 1..Len(masterNodeList) : NoInternalIP(masterNodeList[i]))
       => bootstrapResult.kind = "error" /\ bootstrapResult.cause = "noInternalIP"

\* three members listed as 10, 2, 1: the snapshot has 1, 10, 2, and the 2 is
\* the first of the two InternalIP entries of its node
C19_Witness ==
  /\ bootstrapResult.kind = "snapshot"
  /\ Len(masterNodeList) = 3
  /\ masterNodeList[1].name = "master-0" /\ masterNodeList[3].name = "master-2"
  /\ bootstrapResult.MasterIPs =
       <<Address(<<1>>), Address(<<1, 0>>), Address(<<2>>)>>

\* the step ends a call with the error of a listing
ListErrorStep ==
  /\ bootstrapResult'.kind = "error"
  /\ bootstrapResult'.cause = "listError"

\* C24: a listing of the nodes that fails with another error than the poll
\* timeout ends the call at that attempt with an error (no further attempt,
\* no shrink, no election): the discovery deadline and the annotations of the
\* configuration object are left as they were.
C24_ListErrorAborts ==
  [][ListErrorStep =>
       /\ bpc' = "idle" /\ heartBeat' = 0 /\ ticks' = 0
       /\ ~bootstrapResult'.timedOut
       /\ OVN_MASTER_DISCOVERY_TIMEOUT' = OVN_MASTER_DISCOVERY_TIMEOUT
       /\ confAnnotations' = confAnnotations]_vars

\* a listing fails in the second call, after attempts that listed members:
\* the deadline is the 130 the first call left
C24_Witness ==
  /\ bpc = "idle"
  /\ bootstrapResult.kind = "error" /\ bootstrapResult.cause = "listError"
  /\ masterNodeList # <<>>
  /\ pollTimeout = 130
  /\ OVN_MASTER_DISCOVERY_TIMEOUT = 130

\* the step ends a call with an error
AbortStep == bootstrapResult'.kind = "error"

\* the step leaves the deadline and the annotations as they are
NothingLeftBehind ==
  /\ OVN_MASTER_DISCOVERY_TIMEOUT' = OVN_MASTER_DISCOVERY_TIMEOUT
  /\ confAnnotations' = confAnnotations

\* C25 as stated: a call that aborts with an error, whatever the error, leaves
\* the initiator annotation and the discovery deadline as they were when the
\* call began (no step of a call changes them before its last).
C25_AbortLeavesNothing ==
  [][/\ bpc' = "polling" => NothingLeftBehind
     /\ AbortStep => NothingLeftBehind]_vars

\* C25, amended: a call that aborts on the configuration or on a failed
\* listing leaves deadline and annotations as they were; a call that aborts
\* later does so after the shrink, so after a poll that timed out the deadline
\* is 120 less (when that is positive); a call that aborts on a member
\* without internal address leaves the annotations as they were; a call that
\* aborts on a failed read of a daemonset or of the infrastructure does so
\* after the election, so the initiator annotation is set: to what it was
\* when that is the address of a member, else to an address of a member, the
\* other annotations being kept.
C25_AbortKeepsEarlierWrites ==
  [][/\ bpc' = "polling" => NothingLeftBehind
     /\ AbortStep =>
          /\ bootstrapResult'.cause \in (ConfigOutcomes \cup {"listError"})
               => NothingLeftBehind
          /\ OVN_MASTER_DISCOVERY_TIMEOUT' =
               IF bootstrapResult'.timedOut /\ OVN_MASTER_DISCOVERY_TIMEOUT - 120 > 0
                 THEN OVN_MASTER_DISCOVERY_TIMEOUT - 120
                 ELSE OVN_MASTER_DISCOVERY_TIMEOUT
          /\ bootstrapResult'.cause = "noInternalIP"
               => confAnnotations' = confAnnotations
          /\ bootstrapResult'.cause \in {"daemonSetError", "infraError"}
               => /\ DOMAIN confAnnotations' =
                       DOMAIN confAnnotations \cup {OVNRaftClusterInitiator}
                  /\ \A k \in DOMAIN confAnnotations \ {OVNRaftClusterInitiator} :
                       confAnnotations'[k] = confAnnotations[k]
                  /\ confAnnotations'[OVNRaftClusterInitiator]
                       \in PassMembers(masterNodeList')
                  /\ (/\ HasInitiator
                      /\ confAnnotations[OVNRaftClusterInitiator]
                           \in PassMembers(masterNodeList'))
                       => confAnnotations' = confAnnotations]_vars

\* the first call times out and aborts on a failed read after the election:
\* the deadline is 130 and the initiator annotation is set
C25_Witness ==
  /\ bpc = "idle"
  /\ bootstrapResult.kind = "error" /\ bootstrapResult.cause = "daemonSetError"
  /\ bootstrapResult.timedOut
  /\ pollTimeout = 250
  /\ OVN_MASTER_DISCOVERY_TIMEOUT = 130
  /\ HasInitiator

\* C30: while the result of the last call of bootstrapOVN is a snapshot, its
\* ClusterInitiator is one of its MasterIPs and the initiator annotation of
\* the configuration object is that address.
C30_InitiatorIsMember ==
  (bootstrapResult.kind = "snapshot") =>
    /\ \E i \in 1..Len(bootstrapResult.MasterIPs) :
         bootstrapResult.MasterIPs[i] = bootstrapResult.ClusterInitiator
    /\ HasInitiator
    /\ confAnnotations[OVNRaftClusterInitiator] = bootstrapResult.ClusterInitiator

\* a snapshot of two members after two polls that timed out, the initiator
\* being the second of them, elected by an earlier call
C30_Witness ==
  /\ bpc = "idle" /\ bootstrapResult.kind = "snapshot"
  /\ OVN_MASTER_DISCOVERY_TIMEOUT = 10
  /\ bootstrapResult.MasterIPs = <<Address(<<1>>), Address(<<2>>)>>
  /\ bootstrapResult.ClusterInitiator = Address(<<2>>)
  /\ confAnnotations[OVNRaftClusterInitiator] = Address(<<2>>)

\* the step ends a poll: the call returns or crashes after a listing attempt
PollEndStep ==
  /\ bpc' # "polling"
  /\ bootstrapResult'.kind # "none"
  /\ bootstrapResult'.cause \notin (ConfigOutcomes \ {"ok"})

\* the listing attempts of the poll that the step ends, the last included
\* (heartBeat counts the attempts before it, none in a call that just began)
AttemptsMade == (IF bpc = "polling" THEN heartBeat ELSE 0) + 1

\* C31 as stated: every poll of a call ends, by success, by a listing error or
\* by timeout, and has made at most D/5 + 1 listing attempts when it ends, D
\* being the deadline it was given.
C31_PollEndsWithin ==
  /\ [][PollEndStep =>
          AttemptsMade <= pollTimeout' \div OVN_MASTER_DISCOVERY_POLL + 1]_vars
  /\ (bpc = "polling") ~> (bpc # "polling")

\* C31, amended: every poll of a call ends, by success, by a listing error or
\* by timeout, and has made at most D/5 + 2 listing attempts when it ends: the
\* immediate one, one for each tick up to the deadline D, and one more when
\* the poller closes its channel; D is 250, 130 or 10.
C31_PollEndsWithinTicksAndClose ==
  /\ [][PollEndStep =>
          /\ pollTimeout' \in {250, 130, 10}
          /\ AttemptsMade <= pollTimeout' \div OVN_MASTER_DISCOVERY_POLL + 2
          /\ bootstrapResult'.kind \in {"snapshot", "error", "panic"}]_vars
  /\ [](bpc = "polling" => ticks * OVN_MASTER_DISCOVERY_POLL <= pollTimeout)
  /\ (bpc = "polling") ~> (bpc # "polling")

\* a poll with the deadline 10 that has made three attempts (at 0, 5 and 10
\* seconds) and is not over: the attempt on the close of the channel follows
C31_Witness ==
  /\ bpc = "polling"
  /\ pollTimeout = 10
  /\ ticks = 2
  /\ heartBeat = 3

(* ------------------------------------------------------------------ *)
(* Properties of concurrent calls                                       *)
(* ------------------------------------------------------------------ *)

\* C21: with calls of bootstrapOVN that run at the same time and interleave
\* between the guard of the shrink (621) and its read-subtract-write (622),
\* the discovery deadline is positive in every state.
C21_DeadlinePositiveConcurrent ==
  OVN_MASTER_DISCOVERY_TIMEOUT > 0

(* ------------------------------------------------------------------ *)
(* Properties of the checks of a change                                 *)
(* ------------------------------------------------------------------ *)

\* the call was made on a next spec whose Migration.MTU has every field
MigrationComplete ==
  /\ op = "isOVNKubernetesChangeSafe"
  /\ nextSpec.MigrationMTU # NIL
  /\ nextSpec.MigrationMTU[1].Network # NIL
  /\ nextSpec.MigrationMTU[1].Machine # NIL
  /\ nextSpec.MigrationMTU[1].Network[1].From # NIL
  /\ nextSpec.MigrationMTU[1].Network[1].To # NIL
  /\ nextSpec.MigrationMTU[1].Machine[1].To # NIL

\* the call returned without the error about Migration.MTU.Machine.To
NoOverheadError ==
  /\ changeErrors.kind = "errors"
  /\ \A i \in 1..Len(changeErrors.errs) :
       changeErrors.errs[i] # "migrationMachineToTooSmall"

\* the overhead of the next spec: 100, or 146 with IPsec
OverheadOfNext == IF nextSpec.IPsecConfig # NIL THEN 146 ELSE 100

\* Machine.To >= Network.To + overhead in the natural numbers: the sum is
\* <<carry, high, low>> in halves of 16 bits, and a carry is above any uint32
MachineCoversOverhead ==
  LET to == nextSpec.MigrationMTU[1].Network[1].To[1]
      machine == nextSpec.MigrationMTU[1].Machine[1].To[1]
      low == to[2] + OverheadOfNext
      high == to[1] + low \div 65536
  IN /\ high < 65536
     /\ \/ machine[1] > high
        \/ machine[1] = high /\ machine[2] >= low % 65536

\* C32: when the Migration.MTU of the next spec has all its fields,
\* isOVNKubernetesChangeSafe returns without the error about Machine.To only
\* if Machine.To >= Network.To + overhead in the natural numbers, the
\* overhead being 100, or 146 with IPsec; for every uint32 Network.To, those
\* whose 32-bit sum with the overhead wraps around included.
C32_OverheadCheckedAsNaturals ==
  (MigrationComplete /\ NoOverheadError) => MachineCoversOverhead

====
